---- MODULE Spec2Model ----
(***************************************************************************)
(* Event detection, time normalisation and curve aggregation of the Terra  *)
(* Sports dashboard (src/app.py).  One script run ("pass") walks through   *)
(* the Kinematic Sequence, Kinematics and Energy Flow tabs in that order.  *)
(*                                                                         *)
(* Encoding.  A nullable number is <<v>> (a value) or <<>> (SQL NULL).     *)
(* A table of the data store is a function from the frames that have a row *)
(* to nullable numbers.  A Python dict is a function whose DOMAIN is its    *)
(* key set; a Python list is a sequence.  Ankle velocities are in          *)
(* hundredths of the channel's unit, so the threshold -0.05 is -5.         *)
(* Aggregate statistics are exact rationals scaled by Scale.               *)
(***************************************************************************)
EXTENDS Integers, Sequences, FiniteSets, TLC

\* ------------------------------------------------------------------ bounds
MaxFrame == 3
MaxPasses == 2

Frames == 1..MaxFrame
Takes == {"A", "B"}
TakeSeq == <<"A", "B">>
Hands == {"R", "L"}

\* ------------------------------------------------------- program constants
KINEMATIC_FPS == 250
\* 1000 / KINEMATIC_FPS, a true division: kept as numerator and denominator
MS_PER_FRAME == <<1000, KINEMATIC_FPS>>
WINDOW_END == 50
WINDOW_PAD == 50
WINDOW_FALLBACK == -100
ZC_THRESHOLD == -5
PKH_PAD == 20

NULL == <<>>
Some(v) == <<v>>

\* ------------------------------------------------------------ Python / SQL
RECURSIVE SetToSortedSeq(_)
SetToSortedSeq(S) ==
    IF S = {} THEN <<>>
    ELSE LET m == CHOOSE x \in S : \A y \in S : x <= y
         IN <<m>> \o SetToSortedSeq(S \ {m})

\* d1.update(d2)
DictUpdate(d1, d2) ==
    [k \in DOMAIN d1 \cup DOMAIN d2 |-> IF k \in DOMAIN d2 THEN d2[k] ELSE d1[k]]

EmptyDict == [k \in {} |-> 0]

\* rows of one take, ORDER BY frame; notnull adds "AND <col> IS NOT NULL"
FrameRows(tbl, notnull) ==
    LET fs == SetToSortedSeq({f \in DOMAIN tbl : ~notnull \/ tbl[f] # NULL})
    IN [i \in 1..Len(fs) |-> <<fs[i], tbl[fs[i]]>>]

\* the dict an accessor builds from the fetched rows: a take with no row has no key
FetchByFrame(table, take_ids, notnull) ==
    [t \in {u \in take_ids : FrameRows(table[u], notnull) # <<>>}
        |-> FrameRows(table[t], notnull)]

\* max(...) keeping the last of several equal maxima
RECURSIVE PyMaxFromLast(_, _, _)
PyMaxFromLast(s, i, best) ==
    IF i > Len(s) THEN best
    ELSE PyMaxFromLast(s, i + 1, IF s[i][2] >= s[best][2] THEN i ELSE best)

\* max(pairs, key=lambda x: x[1]): the first maximal element in list order
RECURSIVE PyMaxFrom(_, _, _)
PyMaxFrom(s, i, best) ==
    IF i > Len(s) THEN best
    ELSE PyMaxFrom(s, i + 1, IF s[i][2] > s[best][2] THEN i ELSE best)

PyMax(s) == s[PyMaxFrom(s, 2, 1)]

\* min(pairs, key=lambda x: x[1]): the first minimal element in list order
RECURSIVE PyMinFrom(_, _, _)
PyMinFrom(s, i, best) ==
    IF i > Len(s) THEN best
    ELSE PyMinFrom(s, i + 1, IF s[i][2] < s[best][2] THEN i ELSE best)

PyMin(s) == s[PyMinFrom(s, 2, 1)]

\* int(x / d) for d > 0: truncation toward zero
TruncDiv(a, d) == IF a >= 0 THEN a \div d ELSE -((-a) \div d)

RECURSIVE Insert(_, _)
Insert(x, s) ==
    IF s = <<>> THEN <<x>>
    ELSE IF x <= Head(s) THEN <<x>> \o s
    ELSE <<Head(s)>> \o Insert(x, Tail(s))

RECURSIVE Sorted(_)
Sorted(s) == IF s = <<>> THEN <<>> ELSE Insert(Head(s), Sorted(Tail(s)))

\* 2 * np.median(s), s non-empty
Median2(s) ==
    LET a == Sorted(s)
        n == Len(a)
    IN IF n % 2 = 1 THEN 2 * a[(n + 1) \div 2]
       ELSE a[n \div 2] + a[n \div 2 + 1]

\* the median rounded down instead of toward zero
IntMedianFloor(s) == Median2(s) \div 2

\* int(np.median(s))
IntMedian(s) == TruncDiv(Median2(s), 2)

\* round(num / den) for den > 0: to the nearest integer, halves to the even one
PyRound(num, den) ==
    LET q == num \div den
        r == num % den
    IN IF 2 * r < den THEN q
       ELSE IF 2 * r > den THEN q + 1
       ELSE IF q % 2 = 0 THEN q ELSE q + 1

\* the conversion with the factor inverted: frames per millisecond
rel_frame_to_ms_inverted(rel_frame) ==
    PyRound(rel_frame * MS_PER_FRAME[2], MS_PER_FRAME[1])

\* int(round(rel_frame * MS_PER_FRAME))
rel_frame_to_ms(rel_frame) ==
    PyRound(rel_frame * MS_PER_FRAME[1], MS_PER_FRAME[2])

\* ---------------------------------------------------------------- accessors
get_hand_cg_velocity(db, take_ids, handedness) ==
    IF take_ids = {} \/ handedness \notin Hands THEN EmptyDict
    ELSE FetchByFrame(db.cg, take_ids, FALSE)

get_shoulder_er_angles(db, take_ids, handedness) ==
    IF take_ids = {} \/ handedness \notin Hands THEN EmptyDict
    ELSE FetchByFrame(db.sh, take_ids, FALSE)

get_pelvis_angular_velocity(db, take_ids) ==
    IF take_ids = {} THEN EmptyDict
    ELSE FetchByFrame(db.pelvis, take_ids, FALSE)

get_distal_arm_segment_power(db, take_ids, handedness) ==
    IF take_ids = {} \/ handedness \notin Hands THEN EmptyDict
    ELSE FetchByFrame(db.energy, take_ids, TRUE)

get_elbow_angular_velocity(db, take_ids, handedness) ==
    IF take_ids = {} \/ handedness \notin Hands THEN EmptyDict
    ELSE FetchByFrame(db.elbow, take_ids, FALSE)

\* shoulder external rotation angle of the Kinematics view: the segment is
\* RT_SHOULDER for 'R' and LT_SHOULDER for every other handedness
get_shoulder_er_angle(db, take_ids, handedness) ==
    IF take_ids = {} THEN EmptyDict
    ELSE FetchByFrame(IF handedness = "R" THEN db.rt_shoulder ELSE db.lt_shoulder,
                      take_ids, TRUE)

\* the accessor returns {} before get_connection() is reached
EarlyReturn(name, take_ids, handedness) ==
    CASE name = "get_pelvis_angular_velocity" -> take_ids = {}
      [] name = "get_shoulder_er_angle" -> take_ids = {}
      [] OTHER -> take_ids = {} \/ handedness \notin Hands

\* loader_fn(ids, hand) for the accessor of the given name
loader_fn(name, db, ids, hand) ==
    CASE name = "get_hand_cg_velocity" -> get_hand_cg_velocity(db, ids, hand)
      [] name = "get_shoulder_er_angles" -> get_shoulder_er_angles(db, ids, hand)
      [] name = "get_elbow_angular_velocity" -> get_elbow_angular_velocity(db, ids, hand)
      [] name = "get_shoulder_er_angle" -> get_shoulder_er_angle(db, ids, hand)
      [] OTHER -> get_distal_arm_segment_power(db, ids, hand)

\* load_by_handedness(loader_fn): one fetch per non-empty handedness group, merged
load_by_handedness(name, db, by_hand) ==
    LET part(h) == IF h \in DOMAIN by_hand /\ by_hand[h] # {}
                   THEN loader_fn(name, db, by_hand[h], h)
                   ELSE EmptyDict
    IN DictUpdate(part("R"), part("L"))

\* ---------------------------------------------------------- event detectors
\* [(i, v) for i, v in enumerate(vals) if v is not None], then max(..., key=x[1])
ValidIndexed(rows) ==
    LET idx == SelectSeq([i \in 1..Len(rows) |-> i], LAMBDA i : rows[i][2] # NULL)
    IN [k \in 1..Len(idx) |-> <<idx[k], rows[idx[k]][2][1]>>]

\* [(f, v) for f, v in zip(frames, values) if v is not None]
ValidPairs(rows) ==
    LET keep == SelectSeq(rows, LAMBDA r : r[2] # NULL)
    IN [k \in 1..Len(keep) |-> <<keep[k][1], keep[k][2][1]>>]

\* Ball Release of one take: frame at the index of the first maximum
BrOfRows(rows) == rows[PyMax(ValidIndexed(rows))[1]][1]

\* Ball Release falling back to the first row when no sample is usable
ComputeBrFramesFirstRow(take_ids, cg_data) ==
    [t \in {u \in take_ids \cap DOMAIN cg_data : cg_data[u] # <<>>}
        |-> IF ValidIndexed(cg_data[t]) # <<>> THEN BrOfRows(cg_data[t])
            ELSE cg_data[t][1][1]]

ComputeBrFrames(take_ids, cg_data) ==
    [t \in {u \in take_ids \cap DOMAIN cg_data : ValidIndexed(cg_data[u]) # <<>>}
        |-> BrOfRows(cg_data[t])]

\* the direction rule with the two hands exchanged
ErOfRowsSwapped(rows, hand) ==
    IF hand = "R" THEN PyMax(ValidPairs(rows))[1] ELSE PyMin(ValidPairs(rows))[1]

\* stored maximum shoulder external rotation of one take (whole curve)
ErOfRows(rows, hand) ==
    IF hand = "R" THEN PyMin(ValidPairs(rows))[1] ELSE PyMax(ValidPairs(rows))[1]

ComputeShoulderErMaxFrames(shoulder_data, take_handedness) ==
    [t \in {u \in DOMAIN shoulder_data : ValidPairs(shoulder_data[u]) # <<>>}
        |-> ErOfRows(shoulder_data[t], take_handedness[t])]

\* rows of one take, ORDER BY z DESC, frame ASC, with z IS NOT NULL
RECURSIVE KneeOrder(_, _)
KneeOrder(tbl, S) ==
    IF S = {} THEN <<>>
    ELSE LET m == CHOOSE f \in S : \A g \in S :
                      \/ tbl[g][1] < tbl[f][1]
                      \/ (tbl[g][1] = tbl[f][1] /\ f <= g)
         IN << <<m, tbl[m][1]>> >> \o KneeOrder(tbl, S \ {m})

KneeRows(tbl) == KneeOrder(tbl, {f \in DOMAIN tbl : tbl[f] # NULL})

\* the row loop accepting a knee peak at the Ball Release frame itself
RECURSIVE ScanKneeInclusive(_, _, _, _)
ScanKneeInclusive(rows, i, br, out) ==
    IF i > Len(rows) THEN out
    ELSE ScanKneeInclusive(rows, i + 1, br,
                  IF rows[i][1] <= br /\ out = <<>> THEN <<rows[i][1]>> ELSE out)

\* the row loop of get_peak_glove_knee_pre_br for one take; out is <<>> or <<frame>>
RECURSIVE ScanKnee(_, _, _, _)
ScanKnee(rows, i, br, out) ==
    IF i > Len(rows) THEN out
    ELSE ScanKnee(rows, i + 1, br,
                  IF rows[i][1] < br /\ out = <<>> THEN <<rows[i][1]>> ELSE out)

get_peak_glove_knee_pre_br(db, take_ids, handedness, br_frames) ==
    IF take_ids = {} \/ handedness \notin Hands THEN EmptyDict
    ELSE LET res(t) == IF t \in DOMAIN br_frames
                       THEN ScanKnee(KneeRows(db.knee[t]), 1, br_frames[t], <<>>)
                       ELSE <<>>
         IN [t \in {u \in take_ids : res(u) # <<>>} |-> res(t)[1]]

\* rows of the lead-ankle vertical velocity, z IS NOT NULL, ORDER BY frame
AnkleRows(tbl) ==
    LET rows == FrameRows(tbl, TRUE)
    IN [i \in 1..Len(rows) |-> <<rows[i][1], rows[i][2][1]>>]

\* the row loop keeping the first negative frame instead of the last
RECURSIVE ScanFootPlantFirst(_, _, _, _, _)
ScanFootPlantFirst(rows, i, knee, br, out) ==
    IF i > Len(rows) THEN out
    ELSE ScanFootPlantFirst(rows, i + 1, knee, br,
            IF rows[i][1] < knee \/ rows[i][1] > br THEN out
            ELSE IF rows[i][2] < 0 /\ out = <<>> THEN <<rows[i][1]>> ELSE out)

\* the row loop of get_foot_plant_frame for one take: a later match overwrites
RECURSIVE ScanFootPlant(_, _, _, _, _)
ScanFootPlant(rows, i, knee, br, out) ==
    IF i > Len(rows) THEN out
    ELSE ScanFootPlant(rows, i + 1, knee, br,
            IF rows[i][1] < knee \/ rows[i][1] > br THEN out
            ELSE IF rows[i][2] < 0 THEN <<rows[i][1]>> ELSE out)

get_foot_plant_frame(db, take_ids, handedness, knee_peak_frames, br_frames) ==
    IF take_ids = {} \/ handedness \notin Hands THEN EmptyDict
    ELSE LET res(t) == IF t \in DOMAIN knee_peak_frames /\ t \in DOMAIN br_frames
                       THEN ScanFootPlant(AnkleRows(db.az[t]), 1,
                                          knee_peak_frames[t], br_frames[t], <<>>)
                       ELSE <<>>
         IN [t \in {u \in take_ids : res(u) # <<>>} |-> res(t)[1]]

\* ORDER BY take_id, x DESC: the first row of a take is any row holding the
\* maximum; SQL leaves the order of equal x values unspecified
PeakAnkleFirstRows(tbl) ==
    {f \in DOMAIN tbl : tbl[f] # NULL /\
        \A g \in DOMAIN tbl : tbl[g] # NULL => tbl[g][1] <= tbl[f][1]}

\* the results get_peak_ankle_prox_x_velocity can return
get_peak_ankle_prox_x_velocity(db, take_ids, handedness) ==
    IF take_ids = {} \/ handedness \notin Hands THEN {EmptyDict}
    ELSE LET has == {u \in take_ids : PeakAnkleFirstRows(db.px[u]) # {}}
         IN {out \in [has -> Frames] : \A t \in has : out[t] \in PeakAnkleFirstRows(db.px[t])}

\* the row loop of get_foot_plant_frame_zero_cross for one take: first match wins
RECURSIVE ScanZeroCross(_, _, _, _, _)
ScanZeroCross(rows, i, px, er, out) ==
    IF i > Len(rows) THEN out
    ELSE ScanZeroCross(rows, i + 1, px, er,
            IF rows[i][1] < px \/ rows[i][1] > er THEN out
            ELSE IF rows[i][2] >= ZC_THRESHOLD /\ out = <<>> THEN <<rows[i][1] - 1>>
            ELSE out)

get_foot_plant_frame_zero_cross(db, take_ids, handedness, px_frames, er_frames) ==
    IF take_ids = {} \/ handedness \notin Hands THEN EmptyDict
    ELSE LET res(t) == IF t \in DOMAIN px_frames
                          /\ t \in DOMAIN er_frames
                       THEN ScanZeroCross(AnkleRows(db.az[t]), 1,
                                          px_frames[t],
                                          er_frames[t], <<>>)
                       ELSE <<>>
         IN [t \in {u \in take_ids : res(u) # <<>>} |-> res(t)[1]]

\* ------------------------------------------------------- cohort event lists
\* [ev[t] - br_frames[t] for t in ev if t in br_frames]
EventFrames(ev, br) ==
    LET ks == SelectSeq(TakeSeq, LAMBDA t : t \in DOMAIN ev /\ t \in DOMAIN br)
    IN [i \in 1..Len(ks) |-> ev[ks[i]] - br[ks[i]]]

ComputeWindowStart(fp_events) ==
    IF fp_events # <<>> THEN IntMedian(fp_events) - WINDOW_PAD ELSE WINDOW_FALLBACK

\* the marker placed at the median itself, converted to milliseconds
median_event_ms_exact(event_frames) ==
    IF event_frames = <<>> THEN NULL
    ELSE Some(PyRound(Median2(event_frames) * MS_PER_FRAME[1], 2 * MS_PER_FRAME[2]))

\* the median event marker of one event type:
\* rel_frame_to_ms(int(np.median(event_frames))), drawn only for a non-empty list
median_event_ms(event_frames) ==
    IF event_frames = <<>> THEN NULL
    ELSE Some(rel_frame_to_ms(IntMedian(event_frames)))

\* ------------------------------------------------------------ time normaliser
\* the window test with the lower bound exclusive
InWindowOpen(r, br, ws, we, skipnull) ==
    /\ ~(skipnull /\ r[2] = NULL)
    /\ r[1] - br > ws
    /\ r[1] - br <= we

\* one per-take loop: drop nulls when skipnull, keep window_start <= rel <= window_end
InWindow(r, br, ws, we, skipnull) ==
    /\ ~(skipnull /\ r[2] = NULL)
    /\ r[1] - br >= ws
    /\ r[1] - br <= we

\* the loop negating the right-handed takes instead of the left-handed ones
NormalizePelvisFlipRight(rows, br, ws, we, take_hand) ==
    LET keep == SelectSeq(rows, LAMBDA r : InWindow(r, br, ws, we, TRUE))
    IN [i \in 1..Len(keep) |->
          <<rel_frame_to_ms(keep[i][1] - br),
            IF take_hand = "R" THEN -keep[i][2][1] ELSE keep[i][2][1]>>]

\* the pelvis loop of tab_kinematic; the torso and shoulder-IR loops have the same body
NormalizePelvis(rows, br, ws, we, take_hand) ==
    LET keep == SelectSeq(rows, LAMBDA r : InWindow(r, br, ws, we, TRUE))
    IN [i \in 1..Len(keep) |->
          <<rel_frame_to_ms(keep[i][1] - br),
            IF take_hand = "L" THEN -keep[i][2][1] ELSE keep[i][2][1]>>]

\* the elbow loop leaving every retained sample as stored
NormalizeElbowUnflipped(rows, br, ws, we) ==
    LET keep == SelectSeq(rows, LAMBDA r : InWindow(r, br, ws, we, TRUE))
    IN [i \in 1..Len(keep) |-> <<rel_frame_to_ms(keep[i][1] - br), keep[i][2][1]>>]

\* the elbow loop of tab_kinematic: every retained sample negated
NormalizeElbow(rows, br, ws, we) ==
    LET keep == SelectSeq(rows, LAMBDA r : InWindow(r, br, ws, we, TRUE))
    IN [i \in 1..Len(keep) |-> <<rel_frame_to_ms(keep[i][1] - br), -keep[i][2][1]>>]

Abs(x) == IF x < 0 THEN -x ELSE x

\* the dominant peak taken as the last value of largest magnitude
RECURSIVE DominantFromLast(_, _, _)
DominantFromLast(s, i, best) ==
    IF i > Len(s) THEN best
    ELSE DominantFromLast(s, i + 1, IF Abs(s[i][2]) >= Abs(s[best][2]) THEN i ELSE best)

\* max(valid_vals, key=lambda x: abs(x)): first value of largest magnitude
RECURSIVE DominantFrom(_, _, _)
DominantFrom(s, i, best) ==
    IF i > Len(s) THEN best
    ELSE DominantFrom(s, i + 1, IF Abs(s[i][2]) > Abs(s[best][2]) THEN i ELSE best)

peak_positive_kinematics ==
    {"Shoulder Internal Rotation Velocity", "Trunk Rotational Velocity",
     "Torso-Pelvis Rotational Velocity", "Pelvis Rotational Velocity"}

angle_flip_kinematics == {"Shoulder Horizontal Abduction", "Shoulder ER"}

\* "Velocity" in kinematic, over the names of the Kinematics multiselect
VelocityNamed(kinematic) ==
    kinematic \in {"Shoulder Internal Rotation Velocity", "Trunk Rotational Velocity",
                   "Torso-Pelvis Rotational Velocity", "Pelvis Rotational Velocity",
                   "Front Knee Extension Velocity", "Center of Mass Velocity (X)"}

SignFlip(kinematic, rows) ==
    LET valid == ValidPairs(rows)
    IN IF kinematic \in peak_positive_kinematics /\ valid # <<>>
          /\ valid[DominantFrom(valid, 2, 1)][2] < 0
       THEN -1 ELSE 1

\* the loop negating the shoulder angles of the left-handed takes instead
NormalizeJointFlipLeft(kinematic, rows, br, ws, we, take_hand) ==
    LET keep == SelectSeq(rows, LAMBDA r : InWindow(r, br, ws, we, TRUE))
        flip == SignFlip(kinematic, rows)
    IN [i \in 1..Len(keep) |->
          <<rel_frame_to_ms(keep[i][1] - br),
            IF ~VelocityNamed(kinematic) /\ take_hand = "L"
               /\ kinematic \in angle_flip_kinematics
            THEN -keep[i][2][1]
            ELSE flip * keep[i][2][1]>>]

NormalizeJoint(kinematic, rows, br, ws, we, take_hand) ==
    LET keep == SelectSeq(rows, LAMBDA r : InWindow(r, br, ws, we, TRUE))
        flip == SignFlip(kinematic, rows)
    IN [i \in 1..Len(keep) |->
          <<rel_frame_to_ms(keep[i][1] - br),
            IF ~VelocityNamed(kinematic) /\ take_hand = "R"
               /\ kinematic \in angle_flip_kinematics
            THEN -keep[i][2][1]
            ELSE flip * keep[i][2][1]>>]

NormalizeEnergy(rows, br, ws, we) ==
    LET keep == SelectSeq(rows, LAMBDA r : InWindow(r, br, ws, we, FALSE))
    IN [i \in 1..Len(keep) |-> <<rel_frame_to_ms(keep[i][1] - br), keep[i][2][1]>>]

\* ------------------------------------------------------------ curve aggregator
Scale == 3 * 4
AggKeySeq == <<"A", "B", "C">>

RECURSIVE SumSeq(_)
SumSeq(s) == IF s = <<>> THEN 0 ELSE Head(s) + SumSeq(Tail(s))

\* Scale * np.mean(vals)
MeanScaled(vals) == (Scale * SumSeq(vals)) \div Len(vals)

\* Scale * np.median(vals)
MedianScaled(vals) == (Scale \div 2) * Median2(vals)

\* the percentile taken at the lower closest rank, without interpolation
PercentileLower(vals, q) ==
    LET a == Sorted(vals)
        h == (Len(a) - 1) * q
    IN Scale * a[h \div 4 + 1]

\* Scale * np.percentile(vals, 25 * q): linear interpolation between order statistics
PercentileScaled(vals, q) ==
    LET a == Sorted(vals)
        h == (Len(a) - 1) * q
        lo == h \div 4
        r == h % 4
    IN (Scale \div 4) *
       (4 * a[lo + 1] + (IF r = 0 THEN 0 ELSE r * (a[lo + 2] - a[lo + 1])))

\* the values all curves hold at time f, in dict order then list order
RECURSIVE ValsAt(_, _, _)
ValsAt(curves, ks, f) ==
    IF ks = <<>> THEN <<>>
    ELSE LET c == curves[Head(ks)]
             hit == SelectSeq(c, LAMBDA p : p[1] = f)
         IN [i \in 1..Len(hit) |-> hit[i][2]] \o ValsAt(curves, Tail(ks), f)

\* the loop leaving out the times to which a single curve contributes
RECURSIVE AggregateFromShared(_, _, _, _, _)
AggregateFromShared(curves, ks, all_frames, i, stat) ==
    IF i > Len(all_frames) THEN << <<>>, <<>>, <<>> >>
    ELSE LET vals == ValsAt(curves, ks, all_frames[i])
             rest == AggregateFromShared(curves, ks, all_frames, i + 1, stat)
         IN IF Len(vals) < 2 THEN rest
            ELSE << <<IF stat = "Mean" THEN MeanScaled(vals) ELSE MedianScaled(vals)>>
                        \o rest[1],
                    <<PercentileScaled(vals, 1)>> \o rest[2],
                    <<PercentileScaled(vals, 3)>> \o rest[3] >>

RECURSIVE AggregateFrom(_, _, _, _, _)
AggregateFrom(curves, ks, all_frames, i, stat) ==
    IF i > Len(all_frames) THEN << <<>>, <<>>, <<>> >>
    ELSE LET vals == ValsAt(curves, ks, all_frames[i])
             rest == AggregateFrom(curves, ks, all_frames, i + 1, stat)
         IN IF vals = <<>> THEN rest
            ELSE << <<IF stat = "Mean" THEN MeanScaled(vals) ELSE MedianScaled(vals)>>
                        \o rest[1],
                    <<PercentileScaled(vals, 1)>> \o rest[2],
                    <<PercentileScaled(vals, 3)>> \o rest[3] >>

\* returns <<all_frames, agg_y, iqr_low, iqr_high>>
aggregate_curves(curves_dict, stat) ==
    LET ks == SelectSeq(AggKeySeq, LAMBDA k : k \in DOMAIN curves_dict)
        all_frames == SetToSortedSeq(
            UNION {{curves_dict[k][i][1] : i \in 1..Len(curves_dict[k])}
                       : k \in DOMAIN curves_dict})
        agg == AggregateFrom(curves_dict, ks, all_frames, 1, stat)
    IN <<all_frames, agg[1], agg[2], agg[3]>>

\* ======================================================================
\* State
\* ======================================================================
VARIABLES
    db,                           \* the data store (read only)
    ui,                           \* widget values of the session
    pc,                           \* position of the script run
    pass_no,                      \* number of the script run in this session
    error,                        \* unhandled exception of this run, or "none"
    excluded_take_ids,            \* st.session_state["excluded_take_ids"]
    authenticated,                \* st.session_state.authenticated
    take_ids,
    take_handedness,
    take_ids_by_handedness,
    br_frames,
    shoulder_er_max_frames,
    knee_peak_frames,
    foot_plant_frames,
    ankle_prox_x_peak_frames,
    foot_plant_zero_cross_frames,
    knee_event_frames,
    fp_event_frames,
    mer_event_frames,
    window_start,                 \* NULL while the name is unassigned
    grouped_pelvis,
    grouped,                      \* tab_joint: grouped[kinematic]
    grouped_power,                \* tab_energy
    grouped_elbow,                \* tab_kinematic: elbow angular velocity
    prev,                         \* event maps of the previous run
    agg_in,                       \* aggregate_curves: argument, statistic, result
    agg_stat,
    agg_out,
    call,                         \* a function called on its own: name and arguments
    call_out                      \* its result, NULL before the call

inputs == <<db, ui, authenticated>>
cohort_vars == <<take_ids, take_handedness, take_ids_by_handedness>>
event_maps == <<br_frames, shoulder_er_max_frames, knee_peak_frames, foot_plant_frames,
                ankle_prox_x_peak_frames, foot_plant_zero_cross_frames>>
event_lists == <<knee_event_frames, fp_event_frames, mer_event_frames, window_start>>
curve_vars == <<grouped_pelvis, grouped, grouped_power, grouped_elbow>>
agg_vars == <<agg_in, agg_stat, agg_out>>
call_vars == <<call, call_out>>
vars == <<inputs, pc, pass_no, error, excluded_take_ids, cohort_vars, event_maps,
          event_lists, curve_vars, prev, agg_vars, call_vars>>

Pitchers == {"P1", "P2"}
DisplayModes == {"Individual Throws", "Grouped"}

\* the shared state a script run starts from (module level, before the tabs)
FreshRun ==
    /\ pc = "resolve"
    /\ error = "none"
    /\ take_ids = {}
    /\ take_handedness = EmptyDict
    /\ take_ids_by_handedness = EmptyDict
    /\ br_frames = EmptyDict
    /\ shoulder_er_max_frames = EmptyDict
    /\ knee_peak_frames = EmptyDict
    /\ foot_plant_frames = EmptyDict
    /\ ankle_prox_x_peak_frames = EmptyDict
    /\ foot_plant_zero_cross_frames = EmptyDict
    /\ knee_event_frames = <<>>
    /\ fp_event_frames = <<>>
    /\ mer_event_frames = <<>>
    /\ window_start = NULL
    /\ grouped_pelvis = EmptyDict
    /\ grouped = EmptyDict
    /\ grouped_power = EmptyDict
    /\ grouped_elbow = EmptyDict

EventMapsNow ==
    [br |-> br_frames, mer |-> shoulder_er_max_frames, pkh |-> knee_peak_frames,
     fp |-> foot_plant_frames, px |-> ankle_prox_x_peak_frames,
     zc |-> foot_plant_zero_cross_frames]

\* ======================================================================
\* The script run
\* ======================================================================
\* st.secrets["auth"]["users"]: the configured users and their passwords
users == [coach |-> "pw1", analyst |-> "pw2"]

Usernames == {"coach", "analyst", "guest"}
Passwords == {"pw1", "pw2", ""}

\* login() accepting every configured username whatever the password
LoginAnyPassword ==
    /\ pc = "resolve"
    /\ ~authenticated
    /\ \E username \in Usernames, password \in Passwords, clicked \in BOOLEAN :
          /\ call' = Some([username |-> username, password |-> password,
                           clicked |-> clicked])
          /\ authenticated' = (clicked /\ username \in DOMAIN users)
    /\ UNCHANGED <<db, ui, pc, pass_no, error, excluded_take_ids, cohort_vars, event_maps,
                   event_lists, curve_vars, prev, agg_vars, call_out>>

\* login() of a run that finds the session unauthenticated: the form is drawn with
\* the two text inputs, a Login click with a configured username and its password
\* sets the flag and reruns the script, anything else ends the run at st.stop()
Login ==
    /\ pc = "resolve"
    /\ ~authenticated
    /\ \E username \in Usernames, password \in Passwords, clicked \in BOOLEAN :
          /\ call' = Some([username |-> username, password |-> password,
                           clicked |-> clicked])
          /\ authenticated' = (clicked /\ username \in DOMAIN users
                                        /\ users[username] = password)
    /\ UNCHANGED <<db, ui, pc, pass_no, error, excluded_take_ids, cohort_vars, event_maps,
                   event_lists, curve_vars, prev, agg_vars, call_out>>

\* "if not login(): st.stop()" passed; then tab_kinematic: take resolution,
\* handedness filter, Exclude Takes
ResolveTakes ==
    /\ pc = "resolve"
    /\ authenticated
    /\ LET hand == [t \in ui.cohort |-> db.pitcher_handedness[db.take_pitcher[t]]]
           known == {t \in ui.cohort : hand[t] \in Hands}
           excl == IF known # {} THEN ui.exclude \cap known ELSE excluded_take_ids
           ids == IF known # {} THEN known \ excl ELSE known
       IN /\ take_handedness' = hand
          /\ excluded_take_ids' = excl
          /\ take_ids' = ids
          /\ take_ids_by_handedness' =
                IF ids = {} THEN take_ids_by_handedness
                ELSE [h \in {hand[t] : t \in ids} |-> {t \in ids : hand[t] = h}]
          /\ pc' = IF ids = {} THEN "joint" ELSE "detect"
    /\ UNCHANGED <<inputs, pass_no, error, event_maps, event_lists, curve_vars, prev,
                   agg_vars, call_vars>>

\* one iteration of "for hand, ids in take_ids_by_handedness.items()"
DetectorStep(acc, h, by_hand, br, er, px_h) ==
    IF h \notin DOMAIN by_hand \/ by_hand[h] = {} THEN acc
    ELSE LET knee == DictUpdate(acc.pkh,
                        get_peak_glove_knee_pre_br(db, by_hand[h], h, br))
             fp == DictUpdate(acc.fp, get_foot_plant_frame(db, by_hand[h], h, knee, br))
             px == DictUpdate(acc.px, px_h)
             zc == DictUpdate(acc.zc,
                        get_foot_plant_frame_zero_cross(db, by_hand[h], h, px, er))
         IN [pkh |-> knee, fp |-> fp, px |-> px, zc |-> zc]

DetectorLoop(order, by_hand, br, er, px_by_hand) ==
    DetectorStep(
        DetectorStep([pkh |-> EmptyDict, fp |-> EmptyDict, px |-> EmptyDict,
                      zc |-> EmptyDict],
                     order[1], by_hand, br, er, px_by_hand[order[1]]),
        order[2], by_hand, br, er, px_by_hand[order[2]])

PxResults(h) ==
    IF h \in DOMAIN take_ids_by_handedness
    THEN get_peak_ankle_prox_x_velocity(db, take_ids_by_handedness[h], h)
    ELSE {EmptyDict}

\* tab_kinematic: the event detector chain
DetectEvents ==
    /\ pc = "detect"
    /\ \E order \in {<<"R", "L">>, <<"L", "R">>},
          pxR \in PxResults("R"), pxL \in PxResults("L") :
        LET cg_data == load_by_handedness("get_hand_cg_velocity", db,
                                          take_ids_by_handedness)
            shoulder_data == load_by_handedness("get_shoulder_er_angles", db,
                                                take_ids_by_handedness)
            br == ComputeBrFrames(take_ids, cg_data)
            er == ComputeShoulderErMaxFrames(shoulder_data, take_handedness)
            px_by_hand == [h \in Hands |-> IF h = "R" THEN pxR ELSE pxL]
            out == DetectorLoop(order, take_ids_by_handedness, br, er, px_by_hand)
        IN /\ br_frames' = br
           /\ shoulder_er_max_frames' = er
           /\ knee_peak_frames' = out.pkh
           /\ foot_plant_frames' = out.fp
           /\ ankle_prox_x_peak_frames' = out.px
           /\ foot_plant_zero_cross_frames' = out.zc
    /\ pc' = "collect"
    /\ UNCHANGED <<inputs, pass_no, error, excluded_take_ids, cohort_vars, event_lists,
                   curve_vars, prev, agg_vars, call_vars>>

\* tab_kinematic: cohort event lists and the plot window
CollectEvents ==
    /\ pc = "collect"
    /\ knee_event_frames' = EventFrames(knee_peak_frames, br_frames)
    /\ fp_event_frames' = EventFrames(foot_plant_zero_cross_frames, br_frames)
    /\ mer_event_frames' = EventFrames(shoulder_er_max_frames, br_frames)
    /\ window_start' =
          Some(ComputeWindowStart(EventFrames(foot_plant_zero_cross_frames, br_frames)))
    /\ pc' = "normalize"
    /\ UNCHANGED <<inputs, pass_no, error, excluded_take_ids, cohort_vars, event_maps,
                   curve_vars, prev, agg_vars, call_vars>>

\* tab_kinematic: the per-take loop over the pelvis data (inline BR detection)
NormalizeKinematic ==
    /\ pc = "normalize"
    /\ LET data == get_pelvis_angular_velocity(db, take_ids)
           cg_data == load_by_handedness("get_hand_cg_velocity", db,
                                         take_ids_by_handedness)
           kept == {t \in DOMAIN data :
                      t \in DOMAIN cg_data /\ ValidIndexed(cg_data[t]) # <<>>}
           elbow_data == load_by_handedness("get_elbow_angular_velocity", db,
                                            take_ids_by_handedness)
       IN /\ grouped_pelvis' =
               [t \in kept |-> NormalizePelvis(data[t], BrOfRows(cg_data[t]),
                                               window_start[1], WINDOW_END,
                                               take_handedness[t])]
          /\ grouped_elbow' =
               [t \in kept \cap DOMAIN elbow_data |->
                   NormalizeElbow(elbow_data[t], BrOfRows(cg_data[t]),
                                  window_start[1], WINDOW_END)]
    /\ pc' = "joint"
    /\ UNCHANGED <<inputs, pass_no, error, excluded_take_ids, cohort_vars, event_maps,
                   event_lists, grouped, grouped_power, prev, agg_vars, call_vars>>

\* the accessor tab_joint calls for the one selected kinematic
get_joint_data(kinematic, take_ids_arg, by_hand) ==
    IF kinematic = "Pelvis Rotational Velocity"
    THEN get_pelvis_angular_velocity(db, take_ids_arg)
    ELSE IF kinematic = "Shoulder ER"
    THEN load_by_handedness("get_shoulder_er_angle", db, by_hand)
    ELSE IF kinematic \in {"Trunk Rotational Velocity", "Torso-Pelvis Rotational Velocity"}
    THEN (IF take_ids_arg = {} THEN EmptyDict
          ELSE FetchByFrame(db.joint, take_ids_arg, FALSE))
    ELSE DictUpdate(
            IF "R" \in DOMAIN by_hand /\ by_hand["R"] # {}
            THEN FetchByFrame(db.joint, by_hand["R"], FALSE) ELSE EmptyDict,
            IF "L" \in DOMAIN by_hand /\ by_hand["L"] # {}
            THEN FetchByFrame(db.joint, by_hand["L"], FALSE) ELSE EmptyDict)

Min(a, b) == IF a <= b THEN a ELSE b

\* joint_window_start: widened to the median PKH - 20 for mound-only selections
JointWindowStart(ws, mound_only, knee_events) ==
    IF mound_only /\ knee_events # <<>>
    THEN Min(ws, IntMedian(knee_events) - PKH_PAD)
    ELSE ws

\* date_key of a take: (pitcher, date)
DateKey(t) == <<db.take_pitcher[t], db.take_date[t]>>

\* tab_joint, Grouped mode: some (date_key, kinematic) group aggregates to an empty
\* mean curve, so np.max(y) raises ValueError
EmptyGroupedCurve(curves) ==
    \E k \in {DateKey(t) : t \in DOMAIN curves} :
        LET group == [t \in {u \in DOMAIN curves : DateKey(u) = k} |-> curves[t]]
        IN Len(aggregate_curves(group, "Mean")[2]) = 0

\* tab_joint (Kinematics)
TabJoint ==
    /\ pc = "joint"
    /\ IF window_start = NULL
       THEN \* joint_window_start = window_start: the name was never assigned
            /\ error' = "NameError"
            /\ pc' = "error"
            /\ UNCHANGED grouped
       ELSE LET data == get_joint_data(ui.kinematic, take_ids, take_ids_by_handedness)
                jws == JointWindowStart(window_start[1], ui.mound_only,
                                        knee_event_frames)
                kept == {t \in take_ids : t \in DOMAIN data /\ t \in DOMAIN br_frames}
                curves == [t \in kept |->
                             NormalizeJoint(ui.kinematic, data[t], br_frames[t], jws,
                                            WINDOW_END, take_handedness[t])]
            IN /\ grouped' = curves
               /\ IF ui.joint_mode = "Grouped" /\ EmptyGroupedCurve(curves)
                  THEN error' = "ValueError" /\ pc' = "error"
                  ELSE error' = error /\ pc' = "energy"
    /\ UNCHANGED <<inputs, pass_no, excluded_take_ids, cohort_vars, event_maps,
                   event_lists, grouped_pelvis, grouped_power, grouped_elbow, prev, agg_vars,
                   call_vars>>

\* tab_energy (Energy Flow), one selected metric
TabEnergy ==
    /\ pc = "energy"
    /\ LET energy_data == load_by_handedness("get_distal_arm_segment_power", db,
                                             take_ids_by_handedness)
           kept == DOMAIN energy_data \cap DOMAIN br_frames
       IN grouped_power' =
            IF take_ids = {} \/ energy_data = EmptyDict THEN grouped_power
            ELSE [t \in kept |-> NormalizeEnergy(energy_data[t], br_frames[t],
                                                 window_start[1], WINDOW_END)]
    /\ pc' = "done"
    /\ UNCHANGED <<inputs, pass_no, error, excluded_take_ids, cohort_vars, event_maps,
                   event_lists, grouped_pelvis, grouped, grouped_elbow, prev, agg_vars,
                   call_vars>>

\* a widget interaction reruns the script from the top on the same stored samples
Rerun ==
    /\ pc \in {"done", "error"}
    /\ pass_no < MaxPasses
    /\ pass_no' = pass_no + 1
    /\ prev' = Some(EventMapsNow)
    /\ pc' = "resolve"
    /\ error' = "none"
    /\ take_ids' = {}
    /\ take_handedness' = EmptyDict
    /\ take_ids_by_handedness' = EmptyDict
    /\ br_frames' = EmptyDict
    /\ shoulder_er_max_frames' = EmptyDict
    /\ knee_peak_frames' = EmptyDict
    /\ foot_plant_frames' = EmptyDict
    /\ ankle_prox_x_peak_frames' = EmptyDict
    /\ foot_plant_zero_cross_frames' = EmptyDict
    /\ knee_event_frames' = <<>>
    /\ fp_event_frames' = <<>>
    /\ mer_event_frames' = <<>>
    /\ window_start' = NULL
    /\ grouped_pelvis' = EmptyDict
    /\ grouped' = EmptyDict
    /\ grouped_power' = EmptyDict
    /\ grouped_elbow' = EmptyDict
    /\ UNCHANGED <<inputs, excluded_take_ids, agg_vars, call_vars>>

Next ==
    \/ ResolveTakes
    \/ DetectEvents
    \/ CollectEvents
    \/ NormalizeKinematic
    \/ TabJoint
    \/ TabEnergy
    \/ Rerun

\* a call of aggregate_curves on its own
ApplyAggregate ==
    /\ pc = "aggregate"
    /\ agg_out = NULL
    /\ agg_out' = Some(aggregate_curves(agg_in, agg_stat))
    /\ UNCHANGED <<inputs, pc, pass_no, error, excluded_take_ids, cohort_vars,
                   event_maps, event_lists, curve_vars, prev, agg_in, agg_stat,
                   call_vars>>

NextAggregate == ApplyAggregate

\* ======================================================================
\* Initial states: the stored samples and widget values a run starts from
\* ======================================================================
Total(V) == [Frames -> V]
Partial(V) == UNION {[S -> V] : S \in SUBSET Frames}
PairOf(SA, SB) == {[t \in Takes |-> IF t = "A" THEN a ELSE b] : a \in SA, b \in SB}

\* a frame beyond the plot window of every Ball Release in Frames
FarFrame == MaxFrame + WINDOW_END + 1

\* unremarkable samples of each channel
NomCg == [f \in Frames |-> Some(f)]
NomSh == [f \in Frames |-> Some(f)]
NomKnee == [f \in Frames |-> Some(0 - f)]
NomAz == [f \in Frames |-> Some(IF f = 1 THEN -10 ELSE 0)]
NomPx == [f \in Frames |-> Some(0 - f)]
NomCurve == [f \in Frames |-> Some(f)]
FarCurve == [f \in {FarFrame} |-> Some(1)]

\* Ball Release at frame k, or no usable curve
PeakAt(k) == [f \in Frames |-> Some(IF f = k THEN 2 ELSE 1)]
CgLight == {PeakAt(k) : k \in Frames} \cup {EmptyDict, [f \in Frames |-> NULL]}

NomDb ==
    [take_pitcher |-> [t \in Takes |-> IF t = "A" THEN "P1" ELSE "P2"],
     take_date |-> [t \in Takes |-> "d1"],
     pitcher_handedness |-> [p \in Pitchers |-> IF p = "P1" THEN "R" ELSE "L"],
     cg |-> [t \in Takes |-> NomCg],
     sh |-> [t \in Takes |-> NomSh],
     knee |-> [t \in Takes |-> NomKnee],
     az |-> [t \in Takes |-> NomAz],
     px |-> [t \in Takes |-> NomPx],
     pelvis |-> [t \in Takes |-> NomCurve],
     joint |-> [t \in Takes |-> NomCurve],
     energy |-> [t \in Takes |-> NomCurve],
     elbow |-> [t \in Takes |-> NomCurve],
     rt_shoulder |-> [t \in Takes |-> NomCurve],
     lt_shoulder |-> [t \in Takes |-> NomCurve]]

NomUi ==
    [cohort |-> Takes, exclude |-> {}, joint_mode |-> "Grouped",
     kinematic |-> "Elbow Flexion", mound_only |-> TRUE]

InitSession ==
    /\ pass_no = 1
    /\ excluded_take_ids = {}
    /\ authenticated = TRUE
    /\ prev = NULL
    /\ agg_in = EmptyDict
    /\ agg_stat = "Mean"
    /\ agg_out = NULL
    /\ call = NULL
    /\ call_out = NULL
    /\ FreshRun

\* the detector chain has run in this script run
Detected == pc \in {"collect", "normalize", "joint", "energy", "done", "error"}
               /\ take_ids # {}

HasValue(tbl) == \E f \in DOMAIN tbl : tbl[f] # NULL

\* hand CG velocity of both takes varies
InitBR ==
    /\ InitSession
    /\ ui = NomUi
    /\ \E cg \in PairOf(Partial({NULL, Some(1), Some(2)}), CgLight) :
          db = [NomDb EXCEPT !.cg = cg]

SpecBR == InitBR /\ [][Next]_vars

\* f holds the maximum of the non-null samples of tbl, and no earlier frame does
IsFirstMaximum(tbl, f) ==
    /\ f \in DOMAIN tbl
    /\ tbl[f] # NULL
    /\ \A g \in DOMAIN tbl : tbl[g] # NULL =>
          /\ tbl[g][1] <= tbl[f][1]
          /\ (g < f => tbl[g][1] < tbl[f][1])

\* C1: every take of the cohort with at least one non-null hand-CG-velocity sample
\* has a BR entry, the frame of the maximum non-null value, and of several frames
\* tied for the maximum the first in ascending frame order.
C1_BallReleaseIsFirstMaximum ==
    Detected =>
        \A t \in take_ids : HasValue(db.cg[t]) =>
            /\ t \in DOMAIN br_frames
            /\ IsFirstMaximum(db.cg[t], br_frames[t])

\* a take whose maximum is attained at two frames has resolved BR to the earlier one
C1_Witness ==
    /\ pc = "done"
    /\ \E t \in DOMAIN br_frames : \E g \in DOMAIN db.cg[t] :
          /\ g > br_frames[t]
          /\ db.cg[t][g] = db.cg[t][br_frames[t]]

\* shoulder angle, hand CG velocity and handedness of take A vary
InitMER ==
    /\ InitSession
    /\ ui = NomUi
    /\ \E cg \in PairOf(CgLight, {NomCg}),
          sh \in PairOf(Partial({NULL, Some(-1), Some(1)}), {NomSh}),
          h \in Hands :
          db = [NomDb EXCEPT !.cg = cg, !.sh = sh,
                             !.pitcher_handedness = [p \in Pitchers |-> h]]

SpecMER == InitMER /\ [][Next]_vars

\* C2: the stored MER frame (the upper bound of the FP_zero_cross window and the
\* source of the cohort MER event list) is at or before the take's BR frame, and a
\* take with no non-null shoulder sample at a frame <= BR has no MER entry.
C2_StoredMerBoundedByBr ==
    Detected =>
        \A t \in DOMAIN shoulder_er_max_frames :
            /\ t \in DOMAIN br_frames
            /\ shoulder_er_max_frames[t] <= br_frames[t]

\* lead-knee height and hand CG velocity of take A vary
InitPKH ==
    /\ InitSession
    /\ ui = NomUi
    /\ \E cg \in PairOf(CgLight, {NomCg, PeakAt(1)}),
          knee \in PairOf(Partial({NULL, Some(1), Some(2)}), {NomKnee}) :
          db = [NomDb EXCEPT !.cg = cg, !.knee = knee]

SpecPKH == InitPKH /\ [][Next]_vars

\* f is first among the non-null samples of tbl before frame br in the order
\* (value descending, frame ascending)
IsEarliestLargestBefore(tbl, br, f) ==
    /\ f \in DOMAIN tbl
    /\ tbl[f] # NULL
    /\ f < br
    /\ \A g \in DOMAIN tbl : (tbl[g] # NULL /\ g < br) =>
          /\ tbl[g][1] <= tbl[f][1]
          /\ (tbl[g][1] = tbl[f][1] => f <= g)

\* C3: whenever PKH is defined for a take, BR is defined for it, PKH < BR strictly,
\* and PKH is the frame of the largest non-null lead-knee height among the samples
\* before BR, the earliest frame among equal heights.
C3_PkhPrecedesBr ==
    Detected =>
        \A t \in DOMAIN knee_peak_frames :
            /\ t \in DOMAIN br_frames
            /\ knee_peak_frames[t] < br_frames[t]
            /\ IsEarliestLargestBefore(db.knee[t], br_frames[t], knee_peak_frames[t])

\* PKH resolved for a take whose largest knee height lies at or after BR, with two
\* equal heights before BR
C3_Witness ==
    /\ pc = "done"
    /\ \E t \in DOMAIN knee_peak_frames :
          /\ \E g \in DOMAIN db.knee[t] :
                /\ g >= br_frames[t]
                /\ db.knee[t][g] # NULL
                /\ db.knee[t][g][1] > db.knee[t][knee_peak_frames[t]][1]
          /\ \E g \in DOMAIN db.knee[t] :
                /\ g > knee_peak_frames[t]
                /\ g < br_frames[t]
                /\ db.knee[t][g] = db.knee[t][knee_peak_frames[t]]

\* hand CG velocity, lead-knee height and lead-ankle vertical velocity of take A vary
InitFP ==
    /\ InitSession
    /\ ui = NomUi
    /\ \E cg \in PairOf(CgLight, {NomCg}),
          knee \in PairOf(Total({Some(1), Some(2)}), {NomKnee}),
          az \in PairOf(Partial({NULL, Some(-3), Some(0)}), {NomAz}) :
          db = [NomDb EXCEPT !.cg = cg, !.knee = knee, !.az = az]

SpecFP == InitFP /\ [][Next]_vars

\* frames of take t inside [PKH, BR] whose lead-ankle vertical velocity is negative
NegativeInWindow(t) ==
    IF t \in DOMAIN knee_peak_frames /\ t \in DOMAIN br_frames
    THEN {f \in DOMAIN db.az[t] :
            /\ db.az[t][f] # NULL
            /\ db.az[t][f][1] < 0
            /\ knee_peak_frames[t] <= f
            /\ f <= br_frames[t]}
    ELSE {}

\* C4: FP_coarse, when defined, lies in [PKH, BR] and is the last frame of that
\* window with strictly negative lead-ankle vertical velocity; a take has no
\* FP_coarse entry when PKH or BR is undefined or no in-window frame is negative
\* (negative velocity at frames 10 and 15 gives 15).
C4_FpCoarseIsLastNegative ==
    /\ ScanFootPlant(<< <<10, -1>>, <<12, 1>>, <<15, -1>>, <<16, 1>> >>, 1, 5, 20, <<>>)
          = <<15>>
    /\ Detected =>
          \A t \in take_ids :
              IF NegativeInWindow(t) = {} THEN t \notin DOMAIN foot_plant_frames
              ELSE /\ t \in DOMAIN foot_plant_frames
                   /\ foot_plant_frames[t] \in NegativeInWindow(t)
                   /\ \A g \in NegativeInWindow(t) : g <= foot_plant_frames[t]

\* FP_coarse resolved for a take with an earlier negative frame in the window
C4_Witness ==
    /\ pc = "done"
    /\ \E t \in DOMAIN foot_plant_frames :
          \E g \in NegativeInWindow(t) : g < foot_plant_frames[t]

\* peak-ankle-velocity frame at frame k, or no usable curve
PxLight == {PeakAt(k) : k \in Frames} \cup {EmptyDict}

\* hand CG velocity, shoulder rotation, lead-ankle proximal and vertical velocity of
\* take A vary
InitZC ==
    /\ InitSession
    /\ ui = NomUi
    /\ \E cg \in PairOf(CgLight, {NomCg}),
          sh \in PairOf(Total({Some(-1), Some(1)}), {NomSh}),
          px \in PairOf(PxLight, {NomPx}),
          az \in PairOf(Partial({Some(-10), Some(0)}), {NomAz}) :
          db = [NomDb EXCEPT !.cg = cg, !.sh = sh, !.px = px, !.az = az]

SpecZC == InitZC /\ [][Next]_vars

\* the frames that can be MER of take t: non-null shoulder samples at or before BR
\* holding the minimum (right-handed) or the maximum (left-handed) of those samples
MerBeforeBr(t) ==
    IF t \in DOMAIN br_frames /\ t \in DOMAIN take_handedness
    THEN LET ok == {f \in DOMAIN db.sh[t] : db.sh[t][f] # NULL /\ f <= br_frames[t]}
         IN {f \in ok : \A g \in ok :
                IF take_handedness[t] = "R"
                THEN db.sh[t][f][1] <= db.sh[t][g][1]
                ELSE db.sh[t][f][1] >= db.sh[t][g][1]}
    ELSE {}

\* frames of take t at or after PeakAnklePX and at or before frame mer whose ankle
\* vertical velocity is at or above the threshold
CrossingFrames(t, mer) ==
    IF t \in DOMAIN ankle_prox_x_peak_frames
    THEN {f \in DOMAIN db.az[t] :
            /\ db.az[t][f] # NULL
            /\ db.az[t][f][1] >= ZC_THRESHOLD
            /\ ankle_prox_x_peak_frames[t] <= f
            /\ f <= mer}
    ELSE {}

\* C5: FP_zero_cross, when defined, is f - 1 for the first frame f in
\* [PeakAnklePX, MER] with ankle vertical velocity >= -0.05, a later qualifying frame
\* never overwriting it (crossings at 20 and 25 give 19); a take has no entry when a
\* bounding event is undefined or no in-window frame qualifies.  MER is the frame of
\* the shoulder extreme among the samples at or before BR.
C5_ZeroCrossFirstMatch ==
    /\ ScanZeroCross(<< <<19, -10>>, <<20, 0>>, <<24, -10>>, <<25, 0>> >>, 1, 10, 30, <<>>)
          = <<19>>
    /\ Detected =>
          \A t \in take_ids :
              IF t \in DOMAIN foot_plant_zero_cross_frames
              THEN \E mer \in MerBeforeBr(t) :
                      /\ foot_plant_zero_cross_frames[t] + 1 \in CrossingFrames(t, mer)
                      /\ \A g \in CrossingFrames(t, mer) :
                            foot_plant_zero_cross_frames[t] + 1 <= g
              ELSE \A mer \in MerBeforeBr(t) : CrossingFrames(t, mer) = {}

\* ankle vertical velocity crossing the threshold at some frame, or never, or absent
AzLight == Total({Some(-10), Some(0)}) \cup {EmptyDict}

\* pelvis samples at the first frame, at the window end of a Ball Release at the
\* first frame, one frame later, and beyond every window
EdgeCurve == [f \in {1, 1 + WINDOW_END, 2 + WINDOW_END, FarFrame} |-> Some(1)]

\* hand CG velocity and ankle vertical velocity of both takes vary; the stored MER
\* of both takes is the last frame
InitWindow ==
    /\ InitSession
    /\ ui = NomUi
    /\ \E cg \in PairOf(CgLight, CgLight), az \in PairOf(AzLight, AzLight) :
          db = [NomDb EXCEPT !.cg = cg, !.az = az,
                             !.sh = [t \in Takes |->
                                       [f \in Frames |->
                                          Some(IF t = "A" THEN 0 - f ELSE f)]],
                             !.pelvis = [t \in Takes |-> EdgeCurve]]

SpecWindow == InitWindow /\ [][Next]_vars

\* the cohort window has been computed in this script run
WindowReady == pc \in {"normalize", "joint", "energy", "done"} /\ window_start # NULL

\* takes with a FP_zero_cross entry
ZcTakes == take_ids \cap DOMAIN foot_plant_zero_cross_frames

\* takes whose FP_zero_cross has a time relative to BR
ZcRelTakes == ZcTakes \cap DOMAIN br_frames

ZcRel(t) == foot_plant_zero_cross_frames[t] - br_frames[t]

\* the k-th smallest (from 0) relative FP_zero_cross time of the cohort
ZcRelAt(k) ==
    CHOOSE v \in {ZcRel(t) : t \in ZcRelTakes} :
        /\ Cardinality({t \in ZcRelTakes : ZcRel(t) < v}) <= k
        /\ k < Cardinality({t \in ZcRelTakes : ZcRel(t) <= v})

\* twice the median of the relative FP_zero_cross times
ZcRelMedian2 ==
    LET n == Cardinality(ZcRelTakes)
    IN ZcRelAt((n - 1) \div 2) + ZcRelAt(n \div 2)

\* q is x / 2 rounded toward zero
IsHalfTowardZero(q, x) ==
    IF x >= 0 THEN 2 * q <= x /\ x < 2 * q + 2
    ELSE 2 * q - 2 < x /\ x <= 2 * q

\* every plotted pelvis sample lies inside the window in milliseconds
PelvisInsideWindow ==
    pc \in {"joint", "energy", "done"} =>
        \A t \in DOMAIN grouped_pelvis :
            \A i \in 1..Len(grouped_pelvis[t]) :
                /\ grouped_pelvis[t][i][1] <= rel_frame_to_ms(50)
                /\ grouped_pelvis[t][i][1] >= rel_frame_to_ms(window_start[1])

\* C6 as stated: the window start is median(FP_zero_cross - BR) - 50 exactly, and
\* -100 when no take of the cohort has a FP_zero_cross.
C6_Original ==
    WindowReady =>
        IF ZcTakes = {} THEN window_start[1] = -100
        ELSE /\ ZcRelTakes # {}
             /\ 2 * (window_start[1] + 50) = ZcRelMedian2

\* C6: the window start is the median of FP_zero_cross - BR over the takes that have
\* both events, rounded toward zero to a whole frame, minus 50 frames; it is -100
\* frames when no take has both events; the window end is +50 frames; relative
\* times [-25, -22] give -73.
C6_WindowStartIsTruncatedMedian ==
    /\ ComputeWindowStart(<<-25, -22>>) = -73
    /\ PelvisInsideWindow
    /\ WindowReady =>
          IF ZcRelTakes = {} THEN window_start[1] = -100
          ELSE IsHalfTowardZero(window_start[1] + 50, ZcRelMedian2)

\* two takes whose relative FP_zero_cross times have a negative half-integer median,
\* and a pelvis sample plotted at the window end
C6_Witness ==
    /\ pc = "done"
    /\ Cardinality(ZcRelTakes) = 2
    /\ ZcRelMedian2 < 0
    /\ ZcRelMedian2 % 2 = 1
    /\ \E t \in DOMAIN grouped_pelvis : \E i \in 1..Len(grouped_pelvis[t]) :
          grouped_pelvis[t][i][1] = rel_frame_to_ms(50)

\* relative times and values of the curves handed to aggregate_curves
AggTimes == {0, 4}
AggValues == {10, 20, 30}

\* curves with ascending distinct times
AggCurves ==
    UNION {{[i \in 1..Cardinality(S) |-> <<SetToSortedSeq(S)[i], v[i]>>]
               : v \in [1..Cardinality(S) -> AggValues]} : S \in SUBSET AggTimes}

\* a cohort of up to three curves and the selected central statistic
InitAggregate ==
    /\ pc = "aggregate"
    /\ db = NomDb
    /\ ui = NomUi
    /\ pass_no = 1
    /\ excluded_take_ids = {}
    /\ authenticated = TRUE
    /\ prev = NULL
    /\ error = "none"
    /\ take_ids = {}
    /\ take_handedness = EmptyDict
    /\ take_ids_by_handedness = EmptyDict
    /\ br_frames = EmptyDict
    /\ shoulder_er_max_frames = EmptyDict
    /\ knee_peak_frames = EmptyDict
    /\ foot_plant_frames = EmptyDict
    /\ ankle_prox_x_peak_frames = EmptyDict
    /\ foot_plant_zero_cross_frames = EmptyDict
    /\ knee_event_frames = <<>>
    /\ fp_event_frames = <<>>
    /\ mer_event_frames = <<>>
    /\ window_start = NULL
    /\ grouped_pelvis = EmptyDict
    /\ grouped = EmptyDict
    /\ grouped_power = EmptyDict
    /\ grouped_elbow = EmptyDict
    /\ agg_out = NULL
    /\ call = NULL
    /\ call_out = NULL
    /\ agg_stat \in {"Mean", "Median"}
    /\ \E K \in SUBSET {"A", "B", "C"} : agg_in \in [K -> AggCurves]

SpecAggregate == InitAggregate /\ [][NextAggregate]_vars

\* the samples (curve key, index) of agg_in at time f
PointsAt(f) ==
    {p \in (DOMAIN agg_in) \X (1..Cardinality(AggTimes)) :
        p[2] <= Len(agg_in[p[1]]) /\ agg_in[p[1]][p[2]][1] = f}

ValueOfPoint(p) == agg_in[p[1]][p[2]][2]

RECURSIVE SumOfPoints(_)
SumOfPoints(P) ==
    IF P = {} THEN 0
    ELSE LET p == CHOOSE q \in P : TRUE
         IN ValueOfPoint(p) + SumOfPoints(P \ {p})

\* the k-th smallest (from 0) value among the samples P
ValueAtRank(P, k) ==
    CHOOSE v \in {ValueOfPoint(p) : p \in P} :
        /\ Cardinality({p \in P : ValueOfPoint(p) < v}) <= k
        /\ k < Cardinality({p \in P : ValueOfPoint(p) <= v})

\* x is Scale times the (25 * q)-th percentile of the samples P, by linear
\* interpolation between the closest ranks
IsPercentile(x, P, q) ==
    LET h == (Cardinality(P) - 1) * q
        lo == ValueAtRank(P, h \div 4)
        hi == ValueAtRank(P, (h + 3) \div 4)
    IN 4 * x = Scale * (4 * lo + (h % 4) * (hi - lo))

\* x is Scale times the selected central statistic of the samples P
IsCentral(x, P) ==
    LET n == Cardinality(P)
    IN IF agg_stat = "Mean" THEN x * n = Scale * SumOfPoints(P)
       ELSE 2 * x = Scale * (ValueAtRank(P, (n - 1) \div 2) + ValueAtRank(P, n \div 2))

ThreeCurves == [k \in {"A", "B", "C"} |->
                  << <<0, IF k = "A" THEN 10 ELSE IF k = "B" THEN 20 ELSE 30>> >>]

\* C7: aggregate_curves returns the ascending list of the distinct time values of
\* all curves and, for each such time, the central statistic (mean when 'Mean' is
\* selected, median otherwise) and the 25th and 75th percentile (linear
\* interpolation) of exactly the values the curves hold at that time; values 10,
\* 20, 30 at time 0 give mean 20, median 20 and band 15 / 25.
C7_AggregateCurves ==
    /\ aggregate_curves(ThreeCurves, "Mean")
          = << <<0>>, <<20 * Scale>>, <<15 * Scale>>, <<25 * Scale>> >>
    /\ aggregate_curves(ThreeCurves, "Median")
          = << <<0>>, <<20 * Scale>>, <<15 * Scale>>, <<25 * Scale>> >>
    /\ agg_out # NULL =>
          LET r == agg_out[1]
              n == Len(r[1])
          IN /\ Len(r[2]) = n /\ Len(r[3]) = n /\ Len(r[4]) = n
             /\ \A i \in 1..n : \A j \in 1..n : i < j => r[1][i] < r[1][j]
             /\ {r[1][i] : i \in 1..n} = {f \in AggTimes : PointsAt(f) # {}}
             /\ \A i \in 1..n :
                   /\ IsCentral(r[2][i], PointsAt(r[1][i]))
                   /\ IsPercentile(r[3][i], PointsAt(r[1][i]), 1)
                   /\ IsPercentile(r[4][i], PointsAt(r[1][i]), 3)

\* an aggregate over two times, one held by three curves with unequal values and
\* one held by a single curve
C7_Witness ==
    /\ agg_out # NULL
    /\ Len(agg_out[1][1]) = 2
    /\ \E f \in AggTimes :
          /\ Cardinality(PointsAt(f)) = 3
          /\ Cardinality({ValueOfPoint(p) : p \in PointsAt(f)}) > 1
    /\ \E f \in AggTimes : Cardinality(PointsAt(f)) = 1

\* lead-ankle proximal velocity whose maximum may be held by several frames
PxTied == Total({Some(1), Some(2)})

\* a session: the selected cohort and display mode, and the stored samples of take A
\* (hand CG velocity, ankle proximal velocity, the curves of the three views)
Init ==
    /\ InitSession
    /\ \E cohort \in {{}, {"A"}, Takes}, mode \in DisplayModes,
          cg \in PairOf(CgLight, {NomCg, EmptyDict}),
          px \in PairOf(PxTied, {NomPx}),
          pelvis \in PairOf({NomCurve, FarCurve}, {NomCurve}),
          joint \in PairOf({NomCurve, FarCurve}, {NomCurve}) :
          /\ ui = [NomUi EXCEPT !.cohort = cohort, !.joint_mode = mode]
          /\ db = [NomDb EXCEPT !.cg = cg, !.px = px, !.pelvis = pelvis,
                                !.joint = joint, !.energy = joint]

Spec == Init /\ [][Next]_vars

\* C8: for every cohort, including an empty take set, a cohort in which no take
\* resolves an event and a cohort whose selected signal lies wholly outside the plot
\* window, a recomputation pass (Kinematic Sequence, Kinematics, Energy Flow) raises
\* no unhandled error.
C8_NoHardFailure == error = "none"

\* C9: a take whose hand CG velocity curve is absent or all null has no BR, no PKH
\* and no FP_coarse entry, adds no element to the cohort PKH / FP / MER event lists,
\* and has no relative curve in the Kinematic Sequence, Kinematics or Energy Flow
\* view.
C9_NoBrExcludesTake ==
    /\ \A t \in take_ids :
          ~HasValue(db.cg[t]) =>
              /\ t \notin DOMAIN br_frames
              /\ t \notin DOMAIN knee_peak_frames
              /\ t \notin DOMAIN foot_plant_frames
              /\ t \notin DOMAIN grouped_pelvis
              /\ t \notin DOMAIN grouped
              /\ t \notin DOMAIN grouped_power
    /\ pc \in {"normalize", "joint", "energy", "done", "error"} /\ take_ids # {} =>
          /\ Len(knee_event_frames) =
                Cardinality({t \in DOMAIN knee_peak_frames : HasValue(db.cg[t])})
          /\ Len(fp_event_frames) =
                Cardinality({t \in DOMAIN foot_plant_zero_cross_frames :
                                HasValue(db.cg[t])})
          /\ Len(mer_event_frames) =
                Cardinality({t \in DOMAIN shoulder_er_max_frames : HasValue(db.cg[t])})

\* a finished pass over two takes: one without a usable hand CG velocity curve but
\* with a stored MER and knee and view samples, one plotted in every view
C9_Witness ==
    /\ pc = "done"
    /\ \E t \in take_ids, u \in take_ids :
          /\ ~HasValue(db.cg[t])
          /\ DOMAIN db.cg[t] # {}
          /\ t \in DOMAIN shoulder_er_max_frames
          /\ HasValue(db.knee[t])
          /\ HasValue(db.pelvis[t])
          /\ HasValue(db.joint[t])
          /\ u \in DOMAIN grouped_pelvis
          /\ u \in DOMAIN grouped
          /\ u \in DOMAIN grouped_power
          /\ mer_event_frames # <<>>

\* C10: the detector chain run again on the same stored samples, take set and
\* handedness yields the same event maps as the run before, also when samples tie
\* for an extreme value.
C10_DetectorChainDeterministic ==
    (prev # NULL /\ Detected) => EventMapsNow = prev[1]

\* ======================================================================
\* Functions called on their own
\* ======================================================================
\* the state around a function called on its own: no script run in progress
InitStandalone ==
    /\ pc = "call"
    /\ ui = NomUi
    /\ pass_no = 1
    /\ excluded_take_ids = {}
    /\ authenticated = TRUE
    /\ prev = NULL
    /\ error = "none"
    /\ take_ids = {}
    /\ take_handedness = EmptyDict
    /\ take_ids_by_handedness = EmptyDict
    /\ br_frames = EmptyDict
    /\ shoulder_er_max_frames = EmptyDict
    /\ knee_peak_frames = EmptyDict
    /\ foot_plant_frames = EmptyDict
    /\ ankle_prox_x_peak_frames = EmptyDict
    /\ foot_plant_zero_cross_frames = EmptyDict
    /\ knee_event_frames = <<>>
    /\ fp_event_frames = <<>>
    /\ mer_event_frames = <<>>
    /\ window_start = NULL
    /\ grouped_pelvis = EmptyDict
    /\ grouped = EmptyDict
    /\ grouped_power = EmptyDict
    /\ grouped_elbow = EmptyDict
    /\ agg_in = EmptyDict
    /\ agg_stat = "Mean"
    /\ agg_out = NULL
    /\ call_out = NULL

standalone_unchanged ==
    <<inputs, pc, pass_no, error, excluded_take_ids, cohort_vars, event_maps,
      event_lists, curve_vars, prev, agg_vars, call>>

AccessorNames ==
    {"get_hand_cg_velocity", "get_shoulder_er_angles", "get_distal_arm_segment_power",
     "get_pelvis_angular_velocity", "get_shoulder_er_angle"}

\* accessors taking a handedness argument
HandAwareAccessors == AccessorNames \ {"get_pelvis_angular_velocity"}

\* handedness arguments: the two recognised values and an unrecognised one
HandArgs == Hands \cup {"S"}

accessor(name, data, ids, hand) ==
    CASE name = "get_pelvis_angular_velocity" -> get_pelvis_angular_velocity(data, ids)
      [] name = "get_shoulder_er_angle" -> get_shoulder_er_angle(data, ids, hand)
      [] OTHER -> loader_fn(name, data, ids, hand)

\* one call of a signal accessor
CallAccessor ==
    /\ pc = "call"
    /\ call # NULL
    /\ call_out = NULL
    /\ call_out' = Some([out |-> accessor(call[1].fn, db, call[1].ids, call[1].hand),
                         queried |-> ~EarlyReturn(call[1].fn, call[1].ids,
                                                  call[1].hand)])
    /\ UNCHANGED standalone_unchanged

NextAccessor == CallAccessor

InitAccessor ==
    /\ InitStandalone
    /\ \E cg \in PairOf(CgLight, {NomCg}) : db = [NomDb EXCEPT !.cg = cg]
    /\ \E fn \in AccessorNames, ids \in SUBSET Takes, hand \in HandArgs :
          call = Some([fn |-> fn, ids |-> ids, hand |-> hand])

SpecAccessor == InitAccessor /\ [][NextAccessor]_vars

\* C11: every signal accessor returns an empty mapping without querying the data
\* store when the take-id set is empty, and every accessor that takes a handedness
\* also does so when the handedness is neither 'R' nor 'L'.
C11_AccessorEmptyResult ==
    (/\ call_out # NULL
     /\ \/ call[1].ids = {}
        \/ (call[1].fn \in HandAwareAccessors /\ call[1].hand \notin Hands))
    => (call_out[1].out = EmptyDict /\ ~call_out[1].queried)

\* C12: for a right-handed take the shoulder angle at the MER frame is <= the angle
\* of every non-null sample at a frame <= BR, and for a left-handed take it is >=
\* the angle of every such sample.
C12_MerDirection ==
    Detected =>
        \A t \in DOMAIN shoulder_er_max_frames \cap DOMAIN br_frames :
            LET m == shoulder_er_max_frames[t]
            IN /\ m \in DOMAIN db.sh[t]
               /\ db.sh[t][m] # NULL
               /\ \A g \in DOMAIN db.sh[t] :
                     (db.sh[t][g] # NULL /\ g <= br_frames[t]) =>
                        IF take_handedness[t] = "R"
                        THEN db.sh[t][m][1] <= db.sh[t][g][1]
                        ELSE db.sh[t][m][1] >= db.sh[t][g][1]

\* a finished pass with a take whose shoulder samples at or before BR differ in
\* value, MER being the one the take's hand selects
C12_Witness ==
    /\ pc = "done"
    /\ \E t \in DOMAIN shoulder_er_max_frames \cap DOMAIN br_frames :
          /\ t = "A"
          /\ \E g \in DOMAIN db.sh[t], k \in DOMAIN db.sh[t] :
                /\ g <= br_frames[t] /\ k <= br_frames[t]
                /\ db.sh[t][g] # NULL /\ db.sh[t][k] # NULL
                /\ db.sh[t][g][1] < db.sh[t][k][1]
                /\ shoulder_er_max_frames[t] =
                      (IF take_handedness[t] = "R" THEN g ELSE k)

\* C13: a take whose largest non-null lead-knee height occurs at a frame after its
\* BR frame has no PKH entry.
C13_LatePeakHasNoPkh ==
    Detected =>
        \A t \in take_ids \cap DOMAIN br_frames :
            (\E f \in DOMAIN db.knee[t] :
                /\ IsFirstMaximum(db.knee[t], f)
                /\ f > br_frames[t])
            => t \notin DOMAIN knee_peak_frames

\* ======================================================================
\* Relative curves of a cohort released late in the recording
\* ======================================================================
\* hand CG velocity peaking at frame 120, or no usable curve
LateCg == [f \in {1, 120} |-> Some(IF f = 120 THEN 2 ELSE 1)]

\* hand CG velocity peaking ten frames earlier
EarlierCg == [f \in {1, 110} |-> Some(IF f = 110 THEN 2 ELSE 1)]

\* lead-knee height peaking 110 frames before that release, or one frame before it
EarlyKnee == [f \in {10, 119} |-> Some(IF f = 10 THEN 2 ELSE 1)]
LateKnee == [f \in {10, 119} |-> Some(IF f = 119 THEN 2 ELSE 1)]

\* shoulder angle whose extreme in the direction of the take's hand is at frame 100
LateSh(t) == [f \in {100, 120} |-> Some(IF f = 120 THEN 0 ELSE IF t = "A" THEN -1 ELSE 1)]

\* ankle vertical velocity crossing the threshold at frame 81
LateAz == [f \in {80, 81} |-> Some(IF f = 80 THEN -10 ELSE 0)]

\* samples 119, 100, 91, 90 frames before the release and 50, 51 frames after it
SparseFrames == {1, 20, 29, 30, 170, 171}
SparseCurves == [SparseFrames -> {NULL, Some(1)}]

\* the signal of both takes, the knee peak, the ankle curve, the Mound-only filter,
\* and the pitcher and the hand CG velocity of take B vary; the three views read
\* the same samples
InitRelative ==
    /\ InitSession
    /\ \E c \in SparseCurves, knee \in {EarlyKnee, LateKnee}, az \in {LateAz, EmptyDict},
          cgB \in {LateCg, EarlierCg, EmptyDict}, pB \in Pitchers, mound \in BOOLEAN :
          /\ ui = [NomUi EXCEPT !.mound_only = mound, !.joint_mode = "Individual Throws"]
          /\ db = [NomDb EXCEPT
                     !.take_pitcher = [t \in Takes |-> IF t = "A" THEN "P1" ELSE pB],
                     !.cg = [t \in Takes |-> IF t = "A" THEN LateCg ELSE cgB],
                     !.sh = [t \in Takes |-> LateSh(t)],
                     !.knee = [t \in Takes |-> knee],
                     !.az = [t \in Takes |-> az],
                     !.pelvis = [t \in Takes |-> c],
                     !.joint = [t \in Takes |-> c],
                     !.energy = [t \in Takes |-> c]]

SpecRelative == InitRelative /\ [][Next]_vars

\* the frames of tbl whose sample is non-null and lies in the window [ws, we]
\* relative to br
SamplesInWindow(tbl, br, ws, we) ==
    {f \in DOMAIN tbl : tbl[f] # NULL /\ ws <= f - br /\ f - br <= we}

\* curve has exactly one point per such sample, at 4 ms per relative frame
IsRelativeCurve(curve, tbl, br, ws, we) ==
    /\ \A i \in 1..Len(curve) :
          \E f \in SamplesInWindow(tbl, br, ws, we) : curve[i][1] = 4 * (f - br)
    /\ Len(curve) = Cardinality(SamplesInWindow(tbl, br, ws, we))

\* the window the Kinematics view passes to its normalisation loop
JointWindowNow == JointWindowStart(window_start[1], ui.mound_only, knee_event_frames)

\* C14: every point of every BR-normalized curve (Kinematic Sequence, Kinematics,
\* Energy Flow) comes from a non-null sample of a take with a resolved BR whose
\* relative frame r = frame - BR lies in the inclusive window the computation was
\* given, at exactly 4 * r ms; null samples and samples outside that window never
\* appear.
C14_RelativeCurves ==
    /\ \A t \in DOMAIN grouped_pelvis :
          /\ t \in DOMAIN br_frames
          /\ IsRelativeCurve(grouped_pelvis[t], db.pelvis[t], br_frames[t],
                             window_start[1], 50)
    /\ \A t \in DOMAIN grouped :
          /\ t \in DOMAIN br_frames
          /\ IsRelativeCurve(grouped[t], db.joint[t], br_frames[t], JointWindowNow, 50)
    /\ \A t \in DOMAIN grouped_power :
          /\ t \in DOMAIN br_frames
          /\ IsRelativeCurve(grouped_power[t], db.energy[t], br_frames[t],
                             window_start[1], 50)

\* a finished pass over a cohort with one take lacking BR, whose other take has a
\* null sample inside the window, a sample beyond the window end, and points
\* plotted at both window bounds
C14_Witness ==
    /\ pc = "done"
    /\ DOMAIN grouped_pelvis = {"A"}
    /\ take_ids = Takes
    /\ \E f \in SamplesInWindow(db.pelvis["A"], br_frames["A"], 51, 51) : TRUE
    /\ \E f \in DOMAIN db.pelvis["A"] :
          /\ db.pelvis["A"][f] = NULL
          /\ window_start[1] < f - br_frames["A"]
          /\ f - br_frames["A"] < 50
    /\ \E i, j \in 1..Len(grouped_pelvis["A"]) :
          /\ grouped_pelvis["A"][i][1] = 4 * window_start[1]
          /\ grouped_pelvis["A"][j][1] = 200
    /\ Len(grouped["A"]) > 0
    /\ Len(grouped_power["A"]) > 0

\* the curves of one view split by date_key, as the Grouped display aggregates them
GroupsOf(curves) ==
    {[t \in {u \in DOMAIN curves : DateKey(u) = k} |-> curves[t]] :
        k \in {DateKey(t) : t \in DOMAIN curves}}

\* the four sequences have one length, and every emitted time is the time of a
\* non-null sample of tbl of some take of the group
AlignedAndTotal(group, tbl) ==
    LET out == aggregate_curves(group, "Mean")
    IN /\ Len(out[2]) = Len(out[1])
       /\ Len(out[3]) = Len(out[1])
       /\ Len(out[4]) = Len(out[1])
       /\ \A i \in 1..Len(out[1]) :
             /\ \E t \in DOMAIN group : \E j \in 1..Len(group[t]) :
                   group[t][j][1] = out[1][i]
             /\ \E t \in DOMAIN group : \E f \in DOMAIN tbl[t] :
                   /\ tbl[t][f] # NULL
                   /\ out[1][i] = 4 * (f - br_frames[t])

\* C15: the four sequences aggregate_curves returns for a group of any view have
\* the same length, every emitted time has a contributing value, and a time at
\* which the stored samples of the group are all null is not emitted.
C15_AggregateAlignedAndTotal ==
    /\ \A g \in GroupsOf(grouped_pelvis) : AlignedAndTotal(g, db.pelvis)
    /\ \A g \in GroupsOf(grouped) : AlignedAndTotal(g, db.joint)
    /\ \A g \in GroupsOf(grouped_power) : AlignedAndTotal(g, db.energy)

\* an Energy Flow group of two takes released at different frames: one emitted time
\* has two contributions, another only one, and a time inside the window at which
\* the only stored sample is null is not emitted
C15_Witness ==
    /\ pc = "done"
    /\ \E g \in GroupsOf(grouped_power) :
          LET out == aggregate_curves(g, "Mean")
              T == {out[1][i] : i \in 1..Len(out[1])}
          IN /\ DOMAIN g = Takes
             /\ \E x \in T : Len(ValsAt(g, TakeSeq, x)) = 2
             /\ \E x \in T : Len(ValsAt(g, TakeSeq, x)) = 1
             /\ \E f \in DOMAIN db.energy["A"] :
                   /\ db.energy["A"][f] = NULL
                   /\ window_start[1] <= f - br_frames["A"]
                   /\ f - br_frames["A"] <= 50
                   /\ 4 * (f - br_frames["A"]) \notin T

\* ======================================================================
\* The grouped trace of one date_key group
\* ======================================================================
\* largest number of points of a curve handed to a grouped trace
MaxPoints == 12

\* the three places that draw a grouped mean curve
CallSites == {"tab_kinematic", "tab_joint", "tab_energy"}

\* window_length at each site; polyorder is 3 everywhere
SAVGOL_MIN_POINTS == 11
window_length(site) == IF site = "tab_kinematic" THEN 7 ELSE 11

\* the gate read as "at least as many points as the window"
SmoothingGateByWindow(y, site) == Len(y) >= window_length(site)

\* if len(y) >= 11
SmoothingGate(y, site) == Len(y) >= SAVGOL_MIN_POINTS

\* scipy.signal.savgol_filter(y, window_length, polyorder=3): raises ValueError when
\* the window is longer than the signal; the filtered values are kept symbolic
savgol_filter(y, window) ==
    IF window > Len(y) THEN [error |-> "ValueError"]
    ELSE [error |-> "none", savgol |-> window, of |-> y]

\* x, y, q1, q3 = aggregate_curves(curves, "Mean"), then the smoothing of y
grouped_trace(curves, site) ==
    LET out == aggregate_curves(curves, "Mean")
    IN [x |-> out[1],
        y |-> IF SmoothingGate(out[2], site)
              THEN savgol_filter(out[2], window_length(site))
              ELSE [error |-> "none", raw |-> out[2]],
        q1 |-> out[3],
        q3 |-> out[4]]

\* one grouped trace drawn on its own
DrawGroupedTrace ==
    /\ pc = "call"
    /\ call # NULL
    /\ call_out = NULL
    /\ call_out' = Some(grouped_trace(call[1].curves, call[1].site))
    /\ UNCHANGED standalone_unchanged

NextTrace == DrawGroupedTrace

\* a curve of n points at consecutive frames
Ramp(n) == [i \in 1..n |-> <<rel_frame_to_ms(i), i>>]

\* groups of one or two takes with curves of 0..MaxPoints points, at each site
InitTrace ==
    /\ InitStandalone
    /\ db = NomDb
    /\ \E site \in CallSites, n \in 0..MaxPoints, m \in 0..MaxPoints, two \in BOOLEAN :
          call = Some([site |-> site,
                       curves |-> IF two THEN [t \in Takes |-> IF t = "A" THEN Ramp(n)
                                                                ELSE Ramp(m)]
                                  ELSE [t \in {"A"} |-> Ramp(n)]])

SpecTrace == InitTrace /\ [][NextTrace]_vars

\* the number of points of the aggregate central sequence of the drawn group
CentralPoints == Len(aggregate_curves(call[1].curves, "Mean")[2])

\* C16: at every call site the Savitzky-Golay filter is applied to the aggregate
\* central sequence exactly when it has at least 11 points, with window 7 in
\* Kinematic Sequence and 11 in Kinematics and Energy Flow, never longer than the
\* sequence it filters, and the 25th/75th percentile bands are never smoothed.
C16_SmoothingGate ==
    (call_out # NULL /\ "site" \in DOMAIN call[1]) =>
        LET tr == call_out[1]
            out == aggregate_curves(call[1].curves, "Mean")
        IN /\ tr.y.error = "none"
           /\ ("savgol" \in DOMAIN tr.y) <=> (CentralPoints >= 11)
           /\ ("savgol" \in DOMAIN tr.y) =>
                 /\ tr.y.savgol = (IF call[1].site = "tab_kinematic" THEN 7 ELSE 11)
                 /\ tr.y.savgol <= Len(tr.y.of)
                 /\ tr.y.of = out[2]
           /\ ("raw" \in DOMAIN tr.y) => tr.y.raw = out[2]
           /\ tr.q1 = out[3]
           /\ tr.q3 = out[4]

\* a Kinematic Sequence group of exactly 11 points was smoothed with window 7
C16_Witness ==
    /\ call_out # NULL
    /\ "site" \in DOMAIN call[1]
    /\ call[1].site = "tab_kinematic"
    /\ CentralPoints = 11
    /\ "savgol" \in DOMAIN call_out[1].y
    /\ call_out[1].y.savgol = 7
    /\ Len(call_out[1].q1) = 11

\* every point of the curves of one view lies in the frame window [ws, we]
ClippedTo(curves, ws, we) ==
    \A t \in DOMAIN curves : \A i \in 1..Len(curves[t]) :
        /\ rel_frame_to_ms(ws) <= curves[t][i][1]
        /\ curves[t][i][1] <= rel_frame_to_ms(we)

\* C17: within one pass every relative curve of the cohort, in the Kinematic
\* Sequence, Kinematics and Energy Flow views alike, is clipped to the same frame
\* window [window_start, +50] derived once from the FP_zero_cross median.
C17_OneWindowPerCohort ==
    window_start # NULL =>
        /\ ClippedTo(grouped_pelvis, window_start[1], 50)
        /\ ClippedTo(grouped, window_start[1], 50)
        /\ ClippedTo(grouped_power, window_start[1], 50)

\* ======================================================================
\* Pelvis rotational velocity shown in two views
\* ======================================================================
\* the pelvis angular velocity of take A and the hand of both pitchers vary; the
\* Kinematics view shows Pelvis Rotational Velocity
InitSign ==
    /\ InitSession
    /\ ui = [NomUi EXCEPT !.kinematic = "Pelvis Rotational Velocity",
                          !.joint_mode = "Individual Throws"]
    /\ \E pelvis \in PairOf(Partial({NULL, Some(-2), Some(1)}), {NomCurve}),
          h \in Hands :
          db = [NomDb EXCEPT !.pelvis = pelvis,
                             !.pitcher_handedness = [p \in Pitchers |-> h]]

SpecSign == InitSign /\ [][Next]_vars

\* C18: a signal is governed by one sign rule wherever it is normalized: the pelvis
\* angular velocity of a take is not sign-normalized by the handedness flip in the
\* Kinematic Sequence and by the dominant-peak rule in Kinematics, so a sample
\* plotted in both views has the same value in both.
C18_OneSignRulePerSignal ==
    (pc = "done" /\ ui.kinematic = "Pelvis Rotational Velocity") =>
        \A t \in DOMAIN grouped_pelvis \cap DOMAIN grouped :
            \A i \in 1..Len(grouped_pelvis[t]) : \A j \in 1..Len(grouped[t]) :
                grouped_pelvis[t][i][1] = grouped[t][j][1]
                    => grouped_pelvis[t][i][2] = grouped[t][j][2]

\* ======================================================================
\* A session whose selection changes between passes
\* ======================================================================
\* a rerun that keeps the event maps, event lists and window of the pass before
ReselectKeeping ==
    /\ pc \in {"done", "error"}
    /\ pass_no < MaxPasses
    /\ \E cohort \in SUBSET Takes, exclude \in SUBSET Takes :
          ui' = [ui EXCEPT !.cohort = cohort, !.exclude = exclude]
    /\ pass_no' = pass_no + 1
    /\ prev' = Some(EventMapsNow)
    /\ pc' = "resolve"
    /\ error' = "none"
    /\ take_ids' = {}
    /\ take_handedness' = EmptyDict
    /\ take_ids_by_handedness' = EmptyDict
    /\ UNCHANGED <<db, authenticated, excluded_take_ids, event_maps, event_lists,
                   curve_vars, agg_vars, call_vars>>

\* the sidebar selection (pitchers, dates, velocity band, Exclude Takes) changes and
\* the script reruns from the top
Reselect ==
    /\ pc \in {"done", "error"}
    /\ pass_no < MaxPasses
    /\ \E cohort \in SUBSET Takes, exclude \in SUBSET Takes :
          ui' = [ui EXCEPT !.cohort = cohort, !.exclude = exclude]
    /\ pass_no' = pass_no + 1
    /\ prev' = Some(EventMapsNow)
    /\ pc' = "resolve"
    /\ error' = "none"
    /\ take_ids' = {}
    /\ take_handedness' = EmptyDict
    /\ take_ids_by_handedness' = EmptyDict
    /\ br_frames' = EmptyDict
    /\ shoulder_er_max_frames' = EmptyDict
    /\ knee_peak_frames' = EmptyDict
    /\ foot_plant_frames' = EmptyDict
    /\ ankle_prox_x_peak_frames' = EmptyDict
    /\ foot_plant_zero_cross_frames' = EmptyDict
    /\ knee_event_frames' = <<>>
    /\ fp_event_frames' = <<>>
    /\ mer_event_frames' = <<>>
    /\ window_start' = NULL
    /\ grouped_pelvis' = EmptyDict
    /\ grouped' = EmptyDict
    /\ grouped_power' = EmptyDict
    /\ grouped_elbow' = EmptyDict
    /\ UNCHANGED <<db, authenticated, excluded_take_ids, agg_vars, call_vars>>

NextSession ==
    \/ Next
    \/ Reselect

\* the first selection, the hand CG velocity of take A and whether the pitcher of
\* take B has a recorded handedness vary
InitSession2 ==
    /\ InitSession
    /\ \E cohort \in SUBSET Takes, exclude \in SUBSET Takes :
          ui = [NomUi EXCEPT !.cohort = cohort, !.exclude = exclude,
                             !.joint_mode = "Individual Throws"]
    /\ \E cg \in PairOf(CgLight, {NomCg}), h2 \in {"L", "U"} :
          db = [NomDb EXCEPT !.cg = cg,
                             !.pitcher_handedness =
                                 [p \in Pitchers |-> IF p = "P1" THEN "R" ELSE h2]]

SpecSession == InitSession2 /\ [][NextSession]_vars

\* the takes the current selection resolves to
CurrentCohort ==
    {t \in ui.cohort : db.pitcher_handedness[db.take_pitcher[t]] \in Hands} \ ui.exclude

\* C19: after each pass the BR, MER, PKH, PeakAnklePX, FP_coarse and FP_zero_cross
\* maps and the cohort event lists hold entries only for takes of the current
\* cohort, computed from the current inputs; nothing resolved for an earlier
\* selection survives.
C19_NoStaleEvents ==
    pc \in {"done", "error"} =>
        /\ take_ids = CurrentCohort
        /\ \A k \in DOMAIN EventMapsNow : DOMAIN EventMapsNow[k] \subseteq CurrentCohort
        /\ \A t \in CurrentCohort :
              IF HasValue(db.cg[t])
              THEN t \in DOMAIN br_frames /\ IsFirstMaximum(db.cg[t], br_frames[t])
              ELSE t \notin DOMAIN br_frames
        /\ knee_event_frames = EventFrames(knee_peak_frames, br_frames)
        /\ fp_event_frames = EventFrames(foot_plant_zero_cross_frames, br_frames)
        /\ mer_event_frames = EventFrames(shoulder_er_max_frames, br_frames)

\* a second pass finished on a cohort that no longer holds a take the first pass
\* had resolved events for
C19_Witness ==
    /\ pc = "done"
    /\ pass_no = 2
    /\ prev # NULL
    /\ br_frames # EmptyDict
    /\ \E t \in DOMAIN prev[1].br : t \notin CurrentCohort /\ t \in DOMAIN prev[1].zc
    /\ \E t \in DOMAIN br_frames : t \notin DOMAIN prev[1].br

\* ======================================================================
\* The millisecond conversion called on its own
\* ======================================================================
\* largest magnitude of a relative frame handed to the conversion
MaxRel == 60

RelFrames == (0 - MaxRel)..MaxRel

\* one call of rel_frame_to_ms
CallRelFrameToMs ==
    /\ pc = "call"
    /\ call # NULL
    /\ call_out = NULL
    /\ call_out' = Some(rel_frame_to_ms(call[1].rel_frame))
    /\ UNCHANGED standalone_unchanged

NextConvert == CallRelFrameToMs

InitConvert ==
    /\ InitStandalone
    /\ db = NomDb
    /\ \E r \in RelFrames : call = Some([rel_frame |-> r])

SpecConvert == InitConvert /\ [][NextConvert]_vars

\* C20: for every integer relative frame r, rel_frame_to_ms(r) is exactly 4 * r;
\* dividing the result by 4 recovers r with no remainder, consecutive frames are
\* exactly 4 ms apart (no drift), and distinct frames give distinct values.
C20_MsRoundTrip ==
    (call_out # NULL /\ "rel_frame" \in DOMAIN call[1]) =>
        LET r == call[1].rel_frame
            ms == call_out[1]
        IN /\ ms = 4 * r
           /\ ms % 4 = 0
           /\ ms \div 4 = r
           /\ rel_frame_to_ms(r + 1) - ms = 4
           /\ \A r2 \in RelFrames : r2 # r => rel_frame_to_ms(r2) # ms

\* a frame 50 before Ball Release was converted to -200 ms
C20_Witness ==
    /\ call_out # NULL
    /\ "rel_frame" \in DOMAIN call[1]
    /\ call[1].rel_frame = -50
    /\ call_out[1] = -200

\* C21: whenever FP_zero_cross of a take is defined, the take has an ankle vertical
\* velocity sample at the reported frame and its velocity there is below -0.05.
C21_ZeroCrossBelowThreshold ==
    Detected =>
        \A t \in DOMAIN foot_plant_zero_cross_frames :
            LET f == foot_plant_zero_cross_frames[t]
            IN /\ f \in DOMAIN db.az[t]
               /\ db.az[t][f] # NULL
               /\ db.az[t][f][1] < ZC_THRESHOLD

\* C22: every take with a non-null lead-ankle proximal-axis velocity sample has a
\* PeakAnklePX entry, the earliest frame at which that axis attains its maximum
\* over the full curve, whatever the other events of the take are.
C22_PeakAnklePxEarliestMaximum ==
    Detected =>
        \A t \in take_ids : HasValue(db.px[t]) =>
            /\ t \in DOMAIN ankle_prox_x_peak_frames
            /\ IsFirstMaximum(db.px[t], ankle_prox_x_peak_frames[t])

\* ======================================================================
\* A session over takes whose ankle proximal velocity may tie
\* ======================================================================
\* the first selection and the hand CG velocity and ankle proximal velocity of
\* take A vary
InitIndependence ==
    /\ InitSession
    /\ \E cohort \in SUBSET Takes, exclude \in SUBSET Takes :
          ui = [NomUi EXCEPT !.cohort = cohort, !.exclude = exclude,
                             !.joint_mode = "Individual Throws"]
    /\ \E cg \in PairOf(CgLight, {NomCg}), px \in PairOf(PxTied, {NomPx}) :
          db = [NomDb EXCEPT !.cg = cg, !.px = px]

SpecIndependence == InitIndependence /\ [][NextSession]_vars

\* take t has the same entry, or no entry, in the two maps
SameEntry(m1, m2, t) ==
    /\ (t \in DOMAIN m1) <=> (t \in DOMAIN m2)
    /\ t \in DOMAIN m1 /\ t \in DOMAIN m2 => m1[t] = m2[t]

\* C23: the events resolved for a take depend only on that take: a take that is in
\* the cohort of two consecutive passes over the same stored samples has the same
\* BR, MER, PKH, PeakAnklePX, FP_coarse and FP_zero_cross in both, whatever other
\* takes were added to or removed from the cohort and in whichever order the
\* handedness groups were processed.
C23_PerTakeIndependence ==
    (pc = "done" /\ prev # NULL) =>
        \A t \in DOMAIN prev[1].px \cap DOMAIN ankle_prox_x_peak_frames :
            \A k \in DOMAIN EventMapsNow : SameEntry(prev[1][k], EventMapsNow[k], t)

\* list holds exactly one element ev[t] - br_frames[t] for every take with an entry
\* in ev and in br_frames, and nothing else
IsEventList(list, ev) ==
    LET both == DOMAIN ev \cap DOMAIN br_frames
    IN /\ Len(list) = Cardinality(both)
       /\ \A t \in both :
             Cardinality({i \in 1..Len(list) : list[i] = ev[t] - br_frames[t]})
                = Cardinality({u \in both : ev[u] - br_frames[u] = ev[t] - br_frames[t]})

\* the three cohort event lists with the maps they summarise
EventListPairs ==
    {<<knee_event_frames, knee_peak_frames>>,
     <<fp_event_frames, foot_plant_zero_cross_frames>>,
     <<mer_event_frames, shoulder_er_max_frames>>}

\* C24 as stated: the representative event time is the median of the list converted
\* to milliseconds, and none is produced for an empty list.
C24_Original ==
    WindowReady =>
        \A p \in EventListPairs :
            /\ IsEventList(p[1], p[2])
            /\ IF p[1] = <<>> THEN median_event_ms(p[1]) = NULL
               ELSE median_event_ms(p[1]) = Some(2 * Median2(p[1]))

\* C24: each cohort event list (PKH, FP_zero_cross, MER) holds exactly one element,
\* event frame - BR frame, for every take that has both that event and BR, and
\* nothing else; the representative event time drawn for the cohort is the median
\* of that list rounded toward zero to a whole frame, at 4 ms per frame, and no
\* representative is produced when the list is empty.
C24_CohortEventSummary ==
    WindowReady =>
        \A p \in EventListPairs :
            /\ IsEventList(p[1], p[2])
            /\ IF p[1] = <<>> THEN median_event_ms(p[1]) = NULL
               ELSE \E q \in -200..200 :
                      /\ IsHalfTowardZero(q, Median2(p[1]))
                      /\ median_event_ms(p[1]) = Some(4 * q)

\* the FP_zero_cross list of two takes has a negative half-frame median, the PKH
\* list holds a single take and a marker is drawn for both
C24_Witness ==
    /\ pc = "done"
    /\ Len(fp_event_frames) = 2
    /\ Median2(fp_event_frames) < 0
    /\ Median2(fp_event_frames) % 2 = 1
    /\ median_event_ms(fp_event_frames) # NULL
    /\ \E t \in take_ids : t \in DOMAIN foot_plant_zero_cross_frames
                              /\ t \notin DOMAIN knee_peak_frames

\* ======================================================================
\* Dominant-peak signals in the Kinematics view
\* ======================================================================
\* curves over two frames inside the window and one beyond its end
PeakCurves ==
    UNION {[S -> {NULL, Some(-2), Some(0), Some(1), Some(2)}] :
              S \in SUBSET {1, 2, FarFrame}}

\* the selected kinematic of the dominant-peak family, the curve of take A and the
\* hand of both pitchers vary
InitPeak ==
    /\ InitSession
    /\ \E k \in peak_positive_kinematics, c \in PeakCurves, h \in Hands :
          /\ ui = [NomUi EXCEPT !.kinematic = k, !.joint_mode = "Individual Throws"]
          /\ db = [NomDb EXCEPT !.pelvis = [t \in Takes |-> IF t = "A" THEN c ELSE NomCurve],
                                !.joint = [t \in Takes |-> IF t = "A" THEN c ELSE NomCurve],
                                !.pitcher_handedness = [p \in Pitchers |-> h]]

SpecPeak == InitPeak /\ [][Next]_vars

\* the stored samples the Kinematics view reads for the selected kinematic
JointTable(t) ==
    IF ui.kinematic = "Pelvis Rotational Velocity" THEN db.pelvis[t]
    ELSE IF ui.kinematic = "Shoulder ER"
    THEN (IF take_handedness[t] = "R" THEN db.rt_shoulder[t] ELSE db.lt_shoulder[t])
    ELSE db.joint[t]

\* the frames of tbl holding a non-null value of largest magnitude
DominantFrames(tbl) ==
    {f \in DOMAIN tbl : tbl[f] # NULL /\
        \A g \in DOMAIN tbl : tbl[g] # NULL => Abs(tbl[g][1]) <= Abs(tbl[f][1])}

\* the plotted curve of take t is sgn times the stored samples inside the window
IsSignedCopy(t, sgn) ==
    LET tbl == JointTable(t)
        kept == SamplesInWindow(tbl, br_frames[t], JointWindowNow, 50)
    IN /\ Len(grouped[t]) = Cardinality(kept)
       /\ \A i \in 1..Len(grouped[t]) :
             \E f \in kept : grouped[t][i] = <<4 * (f - br_frames[t]), sgn * tbl[f][1]>>

\* a finished pass showing a dominant-peak signal
PeakShown == pc = "done" /\ ui.kinematic \in peak_positive_kinematics

\* C25 as stated: the curve is negated exactly when the sample of largest absolute
\* value is negative, and after normalization that sample is positive.
C25_Original ==
    PeakShown =>
        \A t \in DOMAIN grouped : DominantFrames(JointTable(t)) # {} =>
            \E sgn \in {-1, 1} :
                /\ IsSignedCopy(t, sgn)
                /\ \A f \in DominantFrames(JointTable(t)) :
                      /\ (sgn = -1) <=> (JointTable(t)[f][1] < 0)
                      /\ sgn * JointTable(t)[f][1] > 0

\* C25: for every take curve of a dominant-peak signal in the Kinematics view the
\* normalized curve is the original or its exact negation over the whole curve; it
\* is the negation exactly when the earliest sample of largest absolute value over
\* the full unwindowed non-null curve is negative, and after normalization that
\* sample is positive, or zero when every sample of the curve is zero.
C25_DominantPeakSign ==
    PeakShown =>
        \A t \in DOMAIN grouped :
            LET tbl == JointTable(t)
                dom == DominantFrames(tbl)
            IN IF dom = {} THEN IsSignedCopy(t, 1)
               ELSE LET f == CHOOSE g \in dom : \A h \in dom : g <= h
                        sgn == IF tbl[f][1] < 0 THEN -1 ELSE 1
                    IN /\ IsSignedCopy(t, sgn)
                       /\ sgn * tbl[f][1] >= 0
                       /\ sgn * tbl[f][1] = 0 =>
                             \A g \in DOMAIN tbl : tbl[g] # NULL => tbl[g][1] = 0

\* a take whose dominant peak is negative and lies beyond the window end was
\* negated, its positive in-window sample plotted negative
C25_Witness ==
    /\ PeakShown
    /\ "A" \in DOMAIN grouped
    /\ DominantFrames(JointTable("A")) = {FarFrame}
    /\ JointTable("A")[FarFrame] = Some(-2)
    /\ 1 \in DOMAIN JointTable("A")
    /\ \E i \in 1..Len(grouped["A"]) : grouped["A"][i][2] < 0

InitAngle ==
    /\ InitSession
    /\ \E k \in angle_flip_kinematics \cup {"Elbow Flexion"},
          c \in Partial({NULL, Some(-2), Some(1)}), h \in Hands :
          LET tbl == [t \in Takes |-> IF t = "A" THEN c ELSE NomCurve]
          IN /\ ui = [NomUi EXCEPT !.kinematic = k, !.joint_mode = "Individual Throws"]
             /\ db = [NomDb EXCEPT !.elbow = tbl, !.joint = tbl, !.rt_shoulder = tbl,
                                   !.lt_shoulder = tbl,
                                   !.pitcher_handedness =
                                       [p \in Pitchers |-> IF p = "P1" THEN h ELSE "L"]]

SpecAngle == InitAngle /\ [][Next]_vars

\* C27: every retained sample of the elbow angular-velocity curve is negated, for
\* right-handed and left-handed takes alike.
C27_ElbowAlwaysNegated ==
    \A t \in DOMAIN grouped_elbow :
        LET kept == SamplesInWindow(db.elbow[t], br_frames[t], window_start[1], 50)
        IN /\ Len(grouped_elbow[t]) = Cardinality(kept)
           /\ \A i \in 1..Len(grouped_elbow[t]) :
                 \E f \in kept :
                    grouped_elbow[t][i] = <<4 * (f - br_frames[t]), 0 - db.elbow[t][f][1]>>

\* a right-handed and a left-handed take both have a plotted elbow curve: a stored
\* -2 of the first is plotted as 2, a stored 1 of the second as -1
C27_Witness ==
    /\ pc = "done"
    /\ DOMAIN grouped_elbow = Takes
    /\ take_handedness = [t \in Takes |-> IF t = "A" THEN "R" ELSE "L"]
    /\ \E i \in 1..Len(grouped_elbow["A"]) : grouped_elbow["A"][i][2] = 2
    /\ \E i \in 1..Len(grouped_elbow["B"]) : grouped_elbow["B"][i][2] = -1

\* C28: in the Kinematics view every retained sample of the Shoulder ER and
\* Shoulder Horizontal Abduction angle curves is negated when the take is
\* right-handed and left unchanged when it is left-handed; no other angle is
\* negated on account of handedness.
C28_ShoulderAngleSign ==
    (pc = "done" /\ ~VelocityNamed(ui.kinematic)) =>
        \A t \in DOMAIN grouped :
            IsSignedCopy(t, IF ui.kinematic \in {"Shoulder ER",
                                                 "Shoulder Horizontal Abduction"}
                               /\ take_handedness[t] = "R"
                            THEN -1 ELSE 1)

\* Shoulder ER of right-handed take A was plotted negated and that of left-handed
\* take B as stored
C28_Witness ==
    /\ pc = "done"
    /\ ui.kinematic = "Shoulder ER"
    /\ DOMAIN grouped = Takes
    /\ take_handedness = [t \in Takes |-> IF t = "A" THEN "R" ELSE "L"]
    /\ \E i \in 1..Len(grouped["A"]) : grouped["A"][i][2] = 2
    /\ \E i \in 1..Len(grouped["B"]) : grouped["B"][i][2] = 1

\* a session that starts unauthenticated; the cohort and the hand CG velocity of
\* take A vary
InitLogin ==
    /\ pass_no = 1
    /\ excluded_take_ids = {}
    /\ authenticated = FALSE
    /\ prev = NULL
    /\ agg_in = EmptyDict
    /\ agg_stat = "Mean"
    /\ agg_out = NULL
    /\ call = NULL
    /\ call_out = NULL
    /\ FreshRun
    /\ \E cohort \in {{}, {"A"}, Takes}, cg \in PairOf(CgLight, {NomCg}) :
          /\ ui = [NomUi EXCEPT !.cohort = cohort]
          /\ db = [NomDb EXCEPT !.cg = cg]

NextLogin == Login \/ Next

SpecLogin == InitLogin /\ [][NextLogin]_vars

\* the Login click recorded in a is one of a configured user with its password
ValidAttempt(a) ==
    /\ a # NULL
    /\ a[1].clicked
    /\ a[1].username \in DOMAIN users
    /\ users[a[1].username] = a[1].password

\* a query result or a stage's output is held by the run
StageOutput ==
    \/ take_handedness # EmptyDict
    \/ take_ids # {}
    \/ EventMapsNow # [k \in DOMAIN EventMapsNow |-> EmptyDict]
    \/ window_start # NULL
    \/ curve_vars # <<EmptyDict, EmptyDict, EmptyDict, EmptyDict>>

\* C29: no data-store query and no pipeline stage executes in a run unless the
\* session is authenticated; the flag turns from false to true only on a Login
\* click whose username is a configured user with the matching password, a failed
\* attempt leaves it false, and once true it never turns false again.
C29_LoginGate ==
    /\ []((pc # "resolve" \/ StageOutput \/ pass_no > 1) => authenticated)
    /\ [][(~authenticated /\ authenticated') => ValidAttempt(call')]_vars
    /\ [][(call' # call /\ ~ValidAttempt(call')) => ~authenticated']_vars
    /\ [][authenticated => authenticated']_vars

\* a Login click of a configured user with its password has set the flag, and the
\* run after it finished with Ball Release detected
C29_Witness ==
    /\ authenticated
    /\ ValidAttempt(call)
    /\ pc = "done"
    /\ br_frames # EmptyDict

\* the takes whose labels are selected in the Exclude Takes control of this run; the
\* control lists the takes of the selection with handedness R or L, and is not drawn
\* when there is none
SelectedForExclusion ==
    ui.exclude \cap {t \in ui.cohort : db.pitcher_handedness[db.take_pitcher[t]] \in Hands}

\* the takes that hold an entry of an event map or a relative curve of this run
TakesInOutputs ==
    UNION ({DOMAIN EventMapsNow[k] : k \in DOMAIN EventMapsNow}
           \cup {DOMAIN grouped_pelvis, DOMAIN grouped, DOMAIN grouped_power,
                 DOMAIN grouped_elbow})

\* the excluded takes and the takes without handedness R or L hold no output
ExcludedHoldNothing ==
    /\ TakesInOutputs \subseteq CurrentCohort
    /\ TakesInOutputs \cap excluded_take_ids = {}
    /\ \A l \in {knee_event_frames, fp_event_frames, mer_event_frames} :
          Len(l) <= Cardinality(CurrentCohort)

\* every remaining take is in the group of exactly one handedness
OneGroupPerTake ==
    take_ids # {} =>
        \A t \in take_ids :
            Cardinality({h \in DOMAIN take_ids_by_handedness :
                            t \in take_ids_by_handedness[h]}) = 1

\* C30: after each pass excluded_take_ids equals exactly the takes whose labels are
\* selected in the Exclude Takes control; no excluded take and no take whose pitcher's
\* handedness is not R or L appears in an event map, cohort event list, relative
\* curve or aggregate of that pass; every remaining take belongs to exactly one
\* handedness group.
C30_ExcludedTakes ==
    pc \in {"done", "error"} =>
        /\ excluded_take_ids = SelectedForExclusion
        /\ ExcludedHoldNothing
        /\ OneGroupPerTake

====
